---- MODULE Spec2Model ----
(***************************************************************************)
(* A model of the flac-rs encoder: the bit writer, the Rice coder, the     *)
(* fixed-order residual iterator, subframe and stereo-layout selection,    *)
(* the variable-length integer and the frame assembler with its CRCs.      *)
(*                                                                         *)
(* A u64 is a tuple of 64 bits, most significant first, so that shifts     *)
(* and masks keep the width of the Rust type.  A byte is a number 0..255.  *)
(***************************************************************************)
EXTENDS Integers, Sequences, FiniteSets, TLC

VARIABLES build, w, written, nops, last, fr, sf, blk, ms, ftf, frm

vars == <<build, w, written, nops, last, fr, sf, blk, ms, ftf, frm>>

\* ------------------------------------------------------------------ bounds
MaxOps == 3

\* --------------------------------------------------------------- helpers
Min(a, b) == IF a < b THEN a ELSE b

Max(a, b) == IF a > b THEN a ELSE b

RECURSIVE Pow2(_)
Pow2(n) == IF n = 0 THEN 1 ELSE 2 * Pow2(n - 1)

\* The build profiles of the crate: overflow checks and debug assertions are
\* on in "debug" and off in "release".
Builds == {"debug", "release"}

\* ------------------------------------------------------------------- u64
SCRATCH_SIZE == 64

Bits64 == 1..64

Zero64 == [i \in Bits64 |-> 0]

\* a u64 as the tuple of its 64 bits, bit 63 first
Word(bits) == SubSeq(bits, 1, SCRATCH_SIZE)

\* value >> n for 0 <= n < 64 (logical shift of an unsigned value)
Shr(v, n) == [i \in Bits64 |-> IF i - n >= 1 THEN v[i - n] ELSE 0]

\* value << n for 0 <= n < 64
Shl(v, n) == [i \in Bits64 |-> IF i + n <= 64 THEN v[i + n] ELSE 0]

And64(a, b) == Word([i \in Bits64 |-> IF a[i] = 1 /\ b[i] = 1 THEN 1 ELSE 0])

Or64(a, b) == Word([i \in Bits64 |-> IF a[i] = 1 \/ b[i] = 1 THEN 1 ELSE 0])

\* the u64 whose low n bits are set (n in 0..64)
LowOnes(n) == [i \in Bits64 |-> IF i > 64 - n THEN 1 ELSE 0]

\* the u64 of a number 0 <= n < 2^31 (From<u8/u16/u32/bool> for u64)
FromNat(n) == Word([i \in Bits64 |-> IF 64 - i >= 31 THEN 0 ELSE (n \div Pow2(64 - i)) % 2])

\* `x as u64` for an i64 x with |x| < 2^31: two's complement, sign extended
FromInt(x) ==
    IF x >= 0 THEN FromNat(x)
    ELSE Word([i \in Bits64 |-> 1 - FromNat(-x - 1)[i]])

\* the low n bits of v, most significant first (n in 0..64)
LowBits(v, n) == [i \in 1..n |-> v[64 - n + i]]

\* ---------------------------------------------------------- bits and bytes
RECURSIVE BitsToNat(_)
BitsToNat(bs) ==
    IF Len(bs) = 0 THEN 0
    ELSE 2 * BitsToNat(SubSeq(bs, 1, Len(bs) - 1)) + bs[Len(bs)]

ByteBits(b) == [i \in 1..8 |-> (b \div Pow2(8 - i)) % 2]

RECURSIVE BytesToBits(_)
BytesToBits(bytes) ==
    IF Len(bytes) = 0 THEN <<>>
    ELSE ByteBits(bytes[1]) \o BytesToBits(Tail(bytes))

Zeros(n) == [i \in 1..n |-> 0]

\* zero bits up to the next byte boundary
PadToByte(bs) == bs \o Zeros((8 - (Len(bs) % 8)) % 8)

\* whole bytes of a bit sequence whose length is a multiple of 8
RECURSIVE PackBytes(_)
PackBytes(bs) ==
    IF Len(bs) < 8 THEN <<>>
    ELSE <<BitsToNat(SubSeq(bs, 1, 8))>> \o PackBytes(SubSeq(bs, 9, Len(bs)))

\* Scratch::to_be_bytes: byte j (0-based) of the scratch register
ToBeBytes(scratch) == [j \in 1..8 |-> BitsToNat(SubSeq(scratch, 8 * j - 7, 8 * j))]

\* Scratch::from_be_bytes
FromBeBytes(bytes) ==
    Word([i \in Bits64 |-> ByteBits(bytes[((i - 1) \div 8) + 1])[((i - 1) % 8) + 1]])

\* ------------------------------------------------------------- BitWriter
\* BitWriter::new / with_capacity
BitWriterNew == [buf |-> <<>>, scratch |-> Zero64, scratchptr |-> 0, panicked |-> FALSE]

\* the bytes are moved and the cursor is left where it was
FlushKeepingCursor(bw) ==
    IF bw.panicked THEN bw
    ELSE [bw EXCEPT !.buf = bw.buf \o SubSeq(ToBeBytes(bw.scratch), 1, bw.scratchptr \div 8),
                    !.scratch = Zero64]

\* BitWriter::flush
Flush(bw) ==
    LET to_write == bw.scratchptr \div 8
        remainder == bw.scratchptr % 8
        bytes == ToBeBytes(bw.scratch)
        kept == [j \in 1..8 |-> IF j = 1 /\ remainder > 0 THEN bytes[to_write + 1] ELSE 0]
    IN  IF bw.panicked THEN bw
        ELSE [bw EXCEPT !.buf = bw.buf \o SubSeq(bytes, 1, to_write),
                        !.scratch = FromBeBytes(kept),
                        !.scratchptr = remainder]

\* (1 as Scratch).wrapping_shl(batchsize as u32) - 1
PutMask(batchsize) == LowOnes(batchsize % 64)

\* value >> bits_remaining: the shift amount is checked in a debug build and
\* taken modulo the width in a release build
ShiftOverflows(bld, bits_remaining) == bld = "debug" /\ bits_remaining >= 64

PutBatch(value, bits_remaining, batchsize) ==
    And64(Shr(value, bits_remaining % 64), PutMask(batchsize))

\* the loop of BitWriter::put
RECURSIVE PutLoop(_, _, _, _)
PutLoop(bld, bw, ct, value) ==
    IF bw.panicked \/ ct = 0 THEN bw
    ELSE LET batchsize == Min(ct, SCRATCH_SIZE - bw.scratchptr)
             bits_remaining == ct - batchsize
             batch == PutBatch(value, bits_remaining, batchsize)
             scratch == Or64(bw.scratch, Shl(batch, SCRATCH_SIZE - batchsize - bw.scratchptr))
             filled == [bw EXCEPT !.scratch = scratch,
                                  !.scratchptr = bw.scratchptr + batchsize]
         IN  IF ShiftOverflows(bld, bits_remaining)
             THEN [bw EXCEPT !.panicked = TRUE]
             ELSE PutLoop(bld,
                          IF filled.scratchptr = SCRATCH_SIZE THEN Flush(filled) ELSE filled,
                          bits_remaining, value)

\* BitWriter::put
Put(bld, bw, ct, value) ==
    IF bw.panicked THEN bw
    ELSE IF bld = "debug" /\ ~(bw.scratchptr < SCRATCH_SIZE)
         THEN [bw EXCEPT !.panicked = TRUE]
         ELSE PutLoop(bld, bw, ct, value)

\* the writer is flushed but not padded
AlignAndFlushUnpadded(bld, bw) == Flush(bw)

\* BitWriter::align_and_flush
AlignAndFlush(bld, bw) ==
    LET align_offset == (8 - (bw.scratchptr % 8)) % 8
    IN  Flush(Put(bld, bw, align_offset, FromNat(0)))

\* BitWriter::finish
Finish(bld, bw) == AlignAndFlush(bld, bw).buf

\* BitWriter::as_slice
AsSlice(bw) == bw.buf

\* every bit the writer holds: the buffer, then the filled part of the scratch
AllBits(bw) == BytesToBits(bw.buf) \o SubSeq(bw.scratch, 1, bw.scratchptr)


\* ------------------------------------------------------------------ rice
\* fold signed to unsigned: negative(v) ? -2v-1 : 2v
Zigzag(value) == IF value >= 0 THEN 2 * value ELSE (-2 * value) - 1

\* rice(order, value, w): the overflow in unary, then the low order bits
RiceBase(order, value) == Zigzag(value) % Pow2(order)

RiceOverflow(order, value) == Zigzag(value) \div Pow2(order)

Rice(bld, order, value, bw) ==
    LET base == RiceBase(order, value)
        overflow == RiceOverflow(order, value)
    IN  Put(bld, Put(bld, bw, overflow + 1, FromNat(1)), order, FromNat(base))

\* --------------------------------------------------------- FixedResidual
\* the inner loop of FixedResidual::new for sample i (0-based): slots 1..i+1
RECURSIVE NewInner(_, _, _, _, _)
NewInner(residuals, j, i, next, prev) ==
    IF j > i + 1 THEN residuals
    ELSE LET n == next - prev
         IN  NewInner([residuals EXCEPT ![j] = n], j + 1, i, n, residuals[j])

\* the outer loop of FixedResidual::new over the first ORDER samples
RECURSIVE NewOuter(_, _, _, _)
NewOuter(residuals, i, order, subblock) ==
    IF i >= order THEN residuals
    ELSE NewOuter(NewInner(residuals, 1, i, subblock[i + 1], 0), i + 1, order, subblock)

\* FixedResidual::new: None when iter.next().unwrap() fails
FixedResidualNew(subblock, order) ==
    IF Len(subblock) < order
    THEN [state |-> "panicked", order |-> order, src |-> subblock,
          iter |-> <<>>, residuals |-> <<>>, out |-> <<>>]
    ELSE [state |-> "iterating", order |-> order, src |-> subblock,
          iter |-> SubSeq(subblock, order + 1, Len(subblock)),
          residuals |-> NewOuter([j \in 1..order |-> 0], 0, order, subblock),
          out |-> <<>>]

\* the difference taken the wrong way round
ResidualStepSwapped(val, residual_prev) == residual_prev - val

\* the stored residual counted twice
ResidualStepDoubled(val, residual_prev) == val - 2 * residual_prev

\* the new value counted twice
ResidualStepScaled(val, residual_prev) == 2 * val - residual_prev

\* next = val - residual_prev
ResidualStep(val, residual_prev) == val - residual_prev

\* the loop of FixedResidual::next: the updated residuals and the value yielded
RECURSIVE NextLoop(_, _, _)
NextLoop(residuals, j, next) ==
    IF j > Len(residuals) THEN [residuals |-> residuals, next |-> next]
    ELSE NextLoop([residuals EXCEPT ![j] = next], j + 1, ResidualStep(next, residuals[j]))

\* FixedResidual::next
FixedResidualNext(it) ==
    IF Len(it.iter) = 0 THEN [it EXCEPT !.state = "done"]
    ELSE LET r == NextLoop(it.residuals, 1, it.iter[1])
         IN  [it EXCEPT !.iter = Tail(it.iter),
                        !.residuals = r.residuals,
                        !.out = it.out \o <<r.next>>]

\* FixedResidual::new(value).collect()
RECURSIVE Drain(_)
Drain(it) == IF it.state # "iterating" THEN it ELSE Drain(FixedResidualNext(it))

Collect(subblock, order) == Drain(FixedResidualNew(subblock, order)).out



\* ------------------------------------------------------ Rice cost and search
\* the largest parameter the 4-bit Rice parameter field can name (15 escapes)
MAX_RICE_PARAM == 14

RECURSIVE RiceBits(_, _)
RiceBits(residual, rice_param) ==
    IF Len(residual) = 0 THEN 0
    ELSE RiceOverflow(rice_param, residual[1]) + 1 + rice_param
             + RiceBits(Tail(residual), rice_param)

\* get_rice_encoding_length: the exact length of the Rice codes, in bytes
GetRiceEncodingLength(residual, rice_param) == (RiceBits(residual, rice_param) + 7) \div 8

\* the scan goes on to parameter 30, past what the 4-bit field can name
RECURSIVE OptimumScanToThirty(_, _, _, _)
OptimumScanToThirty(residual, k, best, best_cost) ==
    IF k > 30 THEN best
    ELSE LET cost == GetRiceEncodingLength(residual, k)
         IN  IF cost < best_cost
             THEN OptimumScanToThirty(residual, k + 1, k, cost)
             ELSE OptimumScanToThirty(residual, k + 1, best, best_cost)

\* find_optimum_rice_param: the argmin over the legal range, smallest first
RECURSIVE OptimumScan(_, _, _, _)
OptimumScan(residual, k, best, best_cost) ==
    IF k > MAX_RICE_PARAM THEN best
    ELSE LET cost == GetRiceEncodingLength(residual, k)
         IN  IF cost < best_cost
             THEN OptimumScan(residual, k + 1, k, cost)
             ELSE OptimumScan(residual, k + 1, best, best_cost)

\* the search leaves out parameter 0
FindOptimumFromOne(residual) ==
    OptimumScan(residual, 2, 1, GetRiceEncodingLength(residual, 1))

FindOptimumRiceParam(residual) ==
    OptimumScan(residual, 1, 0, GetRiceEncodingLength(residual, 0))

\* -------------------------------------------------------------- Subframe
\* Sample::BITSIZE of i16, and of its widened type i32
BITSIZE_I16 == 16

BITSIZE_I32 == 32

Panic == [kind |-> "Panic"]

\* Subframe::new_fixed: slicing value[..order] and the iterator's unwrap fail
\* on a short input, and an order outside 1..4 panics
NewFixed(value, order) ==
    IF order \notin 1..4 \/ Len(value) < order THEN Panic
    ELSE LET residual == Collect(value, order)
         IN  [kind |-> "Fixed",
              predictor |-> SubSeq(value, 1, order),
              rice_param |-> FindOptimumRiceParam(residual),
              residual |-> residual]

\* Subframe::len
SubframeLen(sub, bitsize) ==
    1 + CASE sub.kind = "Constant" -> bitsize \div 8
          [] sub.kind = "Verbatim" -> Len(sub.value) * (bitsize \div 8)
          [] sub.kind = "Fixed" ->
                GetRiceEncodingLength(sub.residual, sub.rice_param)
                    + (Len(sub.predictor) * bitsize) \div 8

\* only the first and the last sample are compared
FirstEqualsLast(value) == value[1] = value[Len(value)]

\* value.iter().all(|sample| *sample == val)
AllEqualFirst(value) == \A i \in 1..Len(value) : value[i] = value[1]

\* a tie replaces the candidate kept so far
CheaperOrEqual(choice, subframe, bitsize) ==
    SubframeLen(choice, bitsize) <= SubframeLen(subframe, bitsize)

\* choice.len() < subframe.len()
Cheaper(choice, subframe, bitsize) ==
    SubframeLen(choice, bitsize) < SubframeLen(subframe, bitsize)

\* for choice in [..] { if choice.len() < subframe.len() { subframe = choice } }
RECURSIVE SelectLoop(_, _, _)
SelectLoop(subframe, choices, bitsize) ==
    IF Len(choices) = 0 THEN subframe
    ELSE SelectLoop(IF Cheaper(choices[1], subframe, bitsize) THEN choices[1] ELSE subframe,
                    Tail(choices), bitsize)

\* Subframe::from_subblock
FromSubblock(value, bitsize) ==
    IF Len(value) = 0 THEN Panic
    ELSE IF AllEqualFirst(value) THEN [kind |-> "Constant", value |-> value[1]]
    ELSE LET o == [k \in 1..4 |-> NewFixed(value, k)]
             verbatim == [kind |-> "Verbatim", value |-> value]
         IN  IF \E k \in 1..4 : o[k].kind = "Panic" THEN Panic
             ELSE SelectLoop(verbatim, <<o[1], o[2], o[3], o[4]>>, bitsize)

\* Subframe::encode_side_channel: never Constant, never Verbatim
EncodeSideChannel(value, bitsize) ==
    IF Len(value) = 0 THEN Panic
    ELSE LET o == [k \in 1..4 |-> NewFixed(value, k)]
         IN  IF \E k \in 1..4 : o[k].kind = "Panic" THEN Panic
             ELSE SelectLoop(o[1], <<o[2], o[3], o[4]>>, bitsize)

RECURSIVE PutSamples(_, _, _, _)
PutSamples(bld, bw, samples, bitsize) ==
    IF bw.panicked \/ Len(samples) = 0 THEN bw
    ELSE PutSamples(bld, Put(bld, bw, bitsize, FromInt(samples[1])), Tail(samples), bitsize)

RECURSIVE RiceAll(_, _, _, _)
RiceAll(bld, bw, residual, rice_param) ==
    IF bw.panicked \/ Len(residual) = 0 THEN bw
    ELSE RiceAll(bld, Rice(bld, rice_param, residual[1], bw), Tail(residual), rice_param)

\* Subframe::put_residual
PutResidual(bld, bw, residual, rice_param) ==
    LET method == Put(bld, bw, 2, FromNat(0))
        partition_order == Put(bld, method, 4, FromNat(0))
        param == Put(bld, partition_order, 4, FromNat(rice_param))
    IN  RiceAll(bld, param, residual, rice_param)

SubframeTypeCode(sub) ==
    CASE sub.kind = "Constant" -> 0
      [] sub.kind = "Verbatim" -> 1
      [] sub.kind = "Fixed" -> 8 + Len(sub.predictor)

\* Subframe::put_into
SubframePutInto(bld, sub, bitsize, bw) ==
    LET pad == Put(bld, bw, 1, FromNat(0))
        type == Put(bld, pad, 6, FromNat(SubframeTypeCode(sub)))
        wasted == Put(bld, type, 1, FromNat(0))
    IN  CASE sub.kind = "Constant" -> Put(bld, wasted, bitsize, FromInt(sub.value))
          [] sub.kind = "Verbatim" -> PutSamples(bld, wasted, sub.value, bitsize)
          [] sub.kind = "Fixed" ->
                PutResidual(bld, PutSamples(bld, wasted, sub.predictor, bitsize),
                            sub.residual, sub.rice_param)

\* -------------------------------------------------------------- mid/side
I16_MIN == -32768

I16_MAX == 32767

\* Sample::widen for i16: the same number as an i32
Widen(x) == x

\* Sample::try_from_widened for i16: i32 -> Option<i16>
TryFromWidened(x) == IF I16_MIN <= x /\ x <= I16_MAX THEN [some |-> TRUE, v |-> x] ELSE [some |-> FALSE]

\* x / 2 rounds toward zero
HalveTowardZero(x) == IF x >= 0 THEN x \div 2 ELSE -((-x) \div 2)

\* x >> 1 on a signed integer: the arithmetic shift rounds toward minus infinity
AsrOne(x) == (x - (x % 2)) \div 2

\* `x as i16`: the low 16 bits, two's complement
AsI16(x) == ((x + 32768) % 65536) - 32768

\* calculate_mid before the unwrap
CalculateMid(left, right) == TryFromWidened(AsrOne(Widen(left) + Widen(right)))

\* calculate_side
CalculateSide(left, right) == Widen(left) - Widen(right)

\* to_mid_side: None when a mid sample fails to narrow (the unwrap panics)
ToMidSide(left, right) ==
    LET n == Len(left)
        mids == [i \in 1..n |-> CalculateMid(left[i], right[i])]
    IN  [ok |-> Len(left) = Len(right) /\ \A i \in 1..n : mids[i].some,
         mid |-> [i \in 1..n |-> IF mids[i].some THEN mids[i].v ELSE 0],
         side |-> [i \in 1..n |-> CalculateSide(left[i], right[i])]]


\* ------------------------------------------------------- stereo layout
\* static ALLOW_SIDE_CHANNEL: bool = false
ALLOW_SIDE_CHANNEL == FALSE

\* the derived Ord of ChannelKind: LeftRight < LeftSide < SideRight < MidSide
ChannelKindRank(kind) ==
    CASE kind = "LeftRight" -> 0
      [] kind = "LeftSide" -> 1
      [] kind = "SideRight" -> 2
      [] kind = "MidSide" -> 3

\* the four (cost, kind) choices in the array's order
StereoChoices(left_subframe, right_subframe, mid_subframe, side_subframe) ==
    LET side_len == SubframeLen(side_subframe, BITSIZE_I32)
        left_len == SubframeLen(left_subframe, BITSIZE_I16)
        right_len == SubframeLen(right_subframe, BITSIZE_I16)
        mid_len == SubframeLen(mid_subframe, BITSIZE_I16)
    IN  <<[cost |-> left_len + right_len, kind |-> "LeftRight"],
          [cost |-> mid_len + side_len, kind |-> "MidSide"],
          [cost |-> left_len + side_len, kind |-> "LeftSide"],
          [cost |-> side_len + right_len, kind |-> "SideRight"]>>

\* choices.sort(); choices[0].1 : the least (cost, kind) pair
SortedFirst(choices) ==
    CHOOSE c \in {choices[i] : i \in 1..Len(choices)} :
        \A d \in {choices[i] : i \in 1..Len(choices)} :
            \/ c.cost < d.cost
            \/ c.cost = d.cost /\ ChannelKindRank(c.kind) <= ChannelKindRank(d.kind)

Independent(channels) == [kind |-> "Independent", channels |-> channels]

\* choose_stereo_layout
ChooseStereoLayout(left_subframe, right_subframe, mid_subframe, side_subframe) ==
    IF ALLOW_SIDE_CHANNEL
    THEN LET chosen_kind == SortedFirst(StereoChoices(left_subframe, right_subframe,
                                                      mid_subframe, side_subframe)).kind
         IN  CASE chosen_kind = "LeftRight" -> Independent(<<left_subframe, right_subframe>>)
               [] chosen_kind = "LeftSide" ->
                     [kind |-> "LeftSide", left |-> left_subframe, side |-> side_subframe]
               [] chosen_kind = "SideRight" ->
                     [kind |-> "SideRight", side |-> side_subframe, right |-> right_subframe]
               [] chosen_kind = "MidSide" ->
                     [kind |-> "MidSide", mid |-> mid_subframe, side |-> side_subframe]
    ELSE Independent(<<left_subframe, right_subframe>>)

\* the 4-bit channel assignment of FrameHeader::put_into
ChannelAssignment(layout) ==
    CASE layout.kind = "Independent" -> Len(layout.channels) - 1
      [] layout.kind = "LeftSide" -> 8
      [] layout.kind = "SideRight" -> 9
      [] layout.kind = "MidSide" -> 10

\* BlockSize::new
MIN_BLOCK_SIZE == 16

\* u16::MAX, the largest length try_into() accepts
MAX_BLOCK_SIZE == 65535

\* the layout Block::encode builds for a stereo block
StereoLayout(left, right, mid, side) ==
    LET left_subframe == FromSubblock(left, BITSIZE_I16)
        right_subframe == FromSubblock(right, BITSIZE_I16)
        mid_subframe == FromSubblock(mid, BITSIZE_I16)
        side_subframe == EncodeSideChannel(side, BITSIZE_I32)
    IN  IF \/ left_subframe.kind = "Panic" \/ right_subframe.kind = "Panic"
           \/ mid_subframe.kind = "Panic" \/ side_subframe.kind = "Panic"
        THEN Panic
        ELSE ChooseStereoLayout(left_subframe, right_subframe, mid_subframe, side_subframe)

\* Block::encode up to the layout: None unless 16 <= len <= 65535 and the
\* stream has 16 bits per sample
BlockEncodeAccepts(len, bits_per_sample) ==
    /\ len <= MAX_BLOCK_SIZE
    /\ len >= MIN_BLOCK_SIZE
    /\ bits_per_sample = BITSIZE_I16

\* ------------------------------------------------------------------ ftf8
\* val >= 1 << n for a u64 val
Ge64(val, n) == \E i \in 1..(64 - n) : val[i] = 1

\* the number held in the low n bits of val (n <= 30)
LowNat(val, n) == BitsToNat(LowBits(val, n))

\* the loop stops one value late
Ftf8ContinueStrict(val, bits_to_fill) ==
    Ge64(val, bits_to_fill) /\ (Ge64(val, bits_to_fill + 1) \/ LowNat(val, bits_to_fill) > 0)

\* while val >= 1 << bits_to_fill
Ftf8Continue(val, bits_to_fill) == Ge64(val, bits_to_fill)

Ftf8Prefix(bits_to_fill) ==
    CASE bits_to_fill = 5 -> 192
      [] bits_to_fill = 4 -> 224
      [] bits_to_fill = 3 -> 240
      [] bits_to_fill = 2 -> 248
      [] bits_to_fill = 1 -> 252
      [] bits_to_fill = 0 -> 254

\* the while loop of ftf8_encode and the leading byte; buffer is 1-based, so
\* buffer[current + 1] is the code's buffer[current]
RECURSIVE Ftf8Loop(_, _, _, _)
Ftf8Loop(val, buffer, current, bits_to_fill) ==
    IF Ftf8Continue(val, bits_to_fill)
    THEN LET filled == [buffer EXCEPT ![current + 1] = 128 + LowNat(val, 6)]
         IN  IF bits_to_fill = 0
             THEN [panicked |-> TRUE, bytes |-> <<>>]
             ELSE Ftf8Loop(Shr(val, 6), filled, current - 1, bits_to_fill - 1)
    ELSE LET lead == Ftf8Prefix(bits_to_fill) + LowNat(val, bits_to_fill)
             done == [buffer EXCEPT ![current + 1] = lead]
         IN  [panicked |-> FALSE, bytes |-> SubSeq(done, current + 1, 8)]

\* ftf8_encode
Ftf8Encode(val) ==
    IF ~Ge64(val, 7)
    THEN [panicked |-> FALSE, bytes |-> <<LowNat(val, 8)>>]
    ELSE Ftf8Loop(val, [i \in 1..8 |-> 0], 7, 6)


\* ----------------------------------------------------------------- frame
\* a ^ b on width-bit numbers
RECURSIVE Xor(_, _, _)
Xor(a, b, width) ==
    IF width = 0 THEN 0
    ELSE ((a + b) % 2) + 2 * Xor(a \div 2, b \div 2, width - 1)

\* Crc::checksum with refin = refout = false, init = xorout = 0: the
\* remainder of the message, most significant bit first, by the polynomial.
\* One bit of the message:
CrcBit(crc, bit, poly, width) ==
    LET top == ((crc \div Pow2(width - 1)) + bit) % 2
        shifted == (2 * crc) % Pow2(width)
    IN  IF top = 1 THEN Xor(shifted, poly, width) ELSE shifted

\* one byte of the message
RECURSIVE CrcByte(_, _, _, _, _)
CrcByte(crc, byte, poly, width, i) ==
    IF i > 8 THEN crc
    ELSE CrcByte(CrcBit(crc, (byte \div Pow2(8 - i)) % 2, poly, width), byte, poly, width, i + 1)

RECURSIVE CrcLoop(_, _, _, _, _)
CrcLoop(crc, bytes, poly, width, i) ==
    IF crc \in Nat /\ i <= Len(bytes)
    THEN CrcLoop(CrcByte(crc, bytes[i], poly, width, 1), bytes, poly, width, i + 1)
    ELSE crc

\* poly: 0b0000_0111
FRAME_HEADER_CRC8_POLY == 7

\* poly: 0b1000_0000_0000_0101
FRAME_CRC16_POLY == 32773

\* FRAME_HEADER_CRC8.checksum(bytes)
FrameHeaderCrc8(bytes) == CrcLoop(0, bytes, FRAME_HEADER_CRC8_POLY, 8, 1)

\* FRAME_CRC16.checksum(bytes)
FrameCrc16(bytes) == CrcLoop(0, bytes, FRAME_CRC16_POLY, 16, 1)

\* the sample rate Frame::new writes into every header
FRAME_SAMPLE_RATE == 44100

\* the frame number is not divided by the block size
FrameNewUndivided(block_size, stream_info, first_sample, subframes) ==
    IF stream_info.bits_per_sample = BITSIZE_I16
    THEN [some |-> TRUE,
          header |-> [variable |-> FALSE,
                      number |-> first_sample,
                      actual_block_size |-> block_size,
                      sample_rate |-> FRAME_SAMPLE_RATE,
                      bits_per_sample |-> stream_info.bits_per_sample],
          subframes |-> subframes]
    ELSE [some |-> FALSE]

\* Frame::new followed by set_subframes
FrameNew(block_size, stream_info, first_sample, subframes) ==
    IF stream_info.bits_per_sample = BITSIZE_I16
    THEN [some |-> TRUE,
          header |-> [variable |-> FALSE,
                      number |-> first_sample \div stream_info.min_block_size,
                      actual_block_size |-> block_size,
                      sample_rate |-> FRAME_SAMPLE_RATE,
                      bits_per_sample |-> stream_info.bits_per_sample],
          subframes |-> subframes]
    ELSE [some |-> FALSE]

\* block_size_bits
BlockSizeBits(actual_block_size) ==
    CASE actual_block_size = 192 -> 1
      [] actual_block_size = 576 -> 2
      [] actual_block_size = 1152 -> 3
      [] actual_block_size = 2304 -> 4
      [] actual_block_size = 4608 -> 5
      [] actual_block_size = 256 -> 8
      [] actual_block_size = 512 -> 9
      [] actual_block_size = 1024 -> 10
      [] actual_block_size = 2048 -> 11
      [] actual_block_size = 4096 -> 12
      [] actual_block_size = 8192 -> 13
      [] actual_block_size = 16384 -> 14
      [] actual_block_size = 32768 -> 15
      [] OTHER -> IF actual_block_size <= 256 THEN 6 ELSE 7

\* sample_rate_bits
SampleRateBits(sample_rate) ==
    CASE sample_rate = 882000 -> 1
      [] sample_rate = 176400 -> 2
      [] sample_rate = 44100 -> 9
      [] OTHER -> 0

\* the 3-bit sample size code
BitsPerSampleBits(bits_per_sample) ==
    CASE bits_per_sample = 8 -> 1
      [] bits_per_sample = 12 -> 2
      [] bits_per_sample = 16 -> 4
      [] bits_per_sample = 20 -> 5
      [] bits_per_sample = 24 -> 6
      [] OTHER -> 0

\* the subframes of a layout in the order Frame::put_into writes them, each
\* with the sample width of its type: side channels are Subframe<S::Widened>
LayoutSubframes(layout) ==
    CASE layout.kind = "Independent" ->
            [i \in 1..Len(layout.channels) |->
                [sub |-> layout.channels[i], bitsize |-> BITSIZE_I16]]
      [] layout.kind = "MidSide" ->
            <<[sub |-> layout.mid, bitsize |-> BITSIZE_I16],
              [sub |-> layout.side, bitsize |-> BITSIZE_I32]>>
      [] layout.kind = "LeftSide" ->
            <<[sub |-> layout.left, bitsize |-> BITSIZE_I16],
              [sub |-> layout.side, bitsize |-> BITSIZE_I32]>>
      [] layout.kind = "SideRight" ->
            <<[sub |-> layout.side, bitsize |-> BITSIZE_I32],
              [sub |-> layout.right, bitsize |-> BITSIZE_I16]>>

\* a run of w.put(ct, value) calls
RECURSIVE PutFields(_, _, _)
PutFields(bld, bw, fields) ==
    IF bw.panicked \/ Len(fields) = 0 THEN bw
    ELSE PutFields(bld, Put(bld, bw, fields[1][1], FromNat(fields[1][2])), Tail(fields))

\* the explicit block size written as is
HeaderTailUnadjusted(header) ==
    LET block_size_bits == BlockSizeBits(header.actual_block_size)
    IN  IF block_size_bits = 6 THEN <<<<8, header.actual_block_size>>>>
        ELSE IF block_size_bits = 7 THEN <<<<16, header.actual_block_size>>>>
        ELSE <<>>

\* the explicit block size and sample rate fields at the end of the header
HeaderTail(header) ==
    LET block_size_bits == BlockSizeBits(header.actual_block_size)
        sample_rate_bits == SampleRateBits(header.sample_rate)
    IN  (IF block_size_bits = 6 THEN <<<<8, header.actual_block_size - 1>>>>
         ELSE IF block_size_bits = 7 THEN <<<<16, header.actual_block_size - 1>>>>
         ELSE <<>>)
        \o
        (IF sample_rate_bits = 12 THEN <<<<8, header.sample_rate \div 1000>>>>
         ELSE IF sample_rate_bits = 13 THEN <<<<16, header.sample_rate>>>>
         ELSE IF sample_rate_bits = 14 THEN <<<<16, header.sample_rate \div 10>>>>
         ELSE <<>>)

\* the fields of the header between the two flushes
HeaderFields(header, channel_layout) ==
    LET encoded_id == Ftf8Encode(FromNat(header.number))
    IN  <<<<15, 32764>>,
          <<1, IF header.variable THEN 1 ELSE 0>>,
          <<4, BlockSizeBits(header.actual_block_size)>>,
          <<4, SampleRateBits(header.sample_rate)>>,
          <<4, ChannelAssignment(channel_layout)>>,
          <<3, BitsPerSampleBits(header.bits_per_sample)>>,
          <<1, 0>>>>
        \o [i \in 1..Len(encoded_id.bytes) |-> <<8, encoded_id.bytes[i]>>]
        \o HeaderTail(header)

\* digest = CRC.checksum(&w.as_slice()[start..]); w.put(ct, digest)
PutDigest(bld, bw, start, width) ==
    LET covered == SubSeq(AsSlice(bw), start + 1, Len(AsSlice(bw)))
    IN  Put(bld, bw, width,
            FromNat(IF width = 8 THEN FrameHeaderCrc8(covered) ELSE FrameCrc16(covered)))

\* FrameHeader::put_into
FrameHeaderPutInto(bld, header, channel_layout, bw) ==
    IF bw.panicked THEN bw
    ELSE IF \/ Ftf8Encode(FromNat(header.number)).panicked
            \/ /\ channel_layout.kind = "Independent"
               /\ Len(channel_layout.channels) \notin 1..8
    THEN [bw EXCEPT !.panicked = TRUE]
    ELSE PutDigest(bld,
                   Flush(PutFields(bld, Flush(bw), HeaderFields(header, channel_layout))),
                   Len(AsSlice(Flush(bw))), 8)

RECURSIVE PutSubframes(_, _, _)
PutSubframes(bld, bw, subs) ==
    IF bw.panicked \/ Len(subs) = 0 THEN bw
    ELSE PutSubframes(bld, SubframePutInto(bld, subs[1].sub, subs[1].bitsize, bw), Tail(subs))

\* Frame::put_into up to align_and_flush
FrameBody(bld, frame, bw) ==
    AlignAndFlush(bld,
        PutSubframes(bld,
                     FrameHeaderPutInto(bld, frame.header, frame.subframes, Flush(bw)),
                     LayoutSubframes(frame.subframes)))

\* Frame::put_into
FramePutInto(bld, frame, bw) ==
    LET crc16_start == Len(AsSlice(Flush(bw)))
        body == FrameBody(bld, frame, bw)
    IN  IF body.panicked THEN body ELSE PutDigest(bld, body, crc16_start, 16)

\* ===================================================== the bit writer alone
\* Inputs of put: widths around the byte and scratch boundaries, and values
\* whose high and low bits differ.
PutWidths == {1, 7, 8, 57, 63, 64}

Alternating64 == [i \in Bits64 |-> i % 2]

PutValues == {LowOnes(64), Alternating64, FromNat(1)}

Idle == <<>>

InitBW ==
    /\ build \in Builds
    /\ w = BitWriterNew
    /\ written = <<>>
    /\ nops = 0
    /\ last = [op |-> "new"]
    /\ fr = Idle /\ sf = Idle /\ blk = Idle /\ ms = Idle /\ ftf = Idle /\ frm = Idle

\* writer.put(ct, value)
BWPut ==
    /\ nops < MaxOps
    /\ ~w.panicked
    /\ \E ct \in PutWidths, value \in PutValues :
          /\ w' = Put(build, w, ct, value)
          /\ written' = written \o LowBits(value, ct)
          /\ last' = [op |-> "put", ct |-> ct, cursor |-> w.scratchptr, value |-> value]
    /\ nops' = nops + 1
    /\ UNCHANGED <<build, fr, sf, blk, ms, ftf, frm>>

\* writer.flush()
BWFlush ==
    /\ nops < MaxOps
    /\ ~w.panicked
    /\ w' = Flush(w)
    /\ last' = [op |-> "flush", cursor |-> w.scratchptr]
    /\ nops' = nops + 1
    /\ UNCHANGED <<build, written, fr, sf, blk, ms, ftf, frm>>

\* writer.align_and_flush()
BWAlignAndFlush ==
    /\ nops < MaxOps
    /\ ~w.panicked
    /\ w' = AlignAndFlush(build, w)
    /\ written' = PadToByte(written)
    /\ last' = [op |-> "align_and_flush", cursor |-> w.scratchptr]
    /\ nops' = nops + 1
    /\ UNCHANGED <<build, fr, sf, blk, ms, ftf, frm>>

NextBW == BWPut \/ BWFlush \/ BWAlignAndFlush

SpecBW == InitBW /\ [][NextBW]_vars

\* C1: after any sequence of put calls with widths 1..64, finish() returns the
\* low bits of every value in order, most significant first, followed only by
\* zero bits up to the byte boundary.
C1_PutKeepsAllBits ==
    ~w.panicked => Finish(build, w) = PackBytes(PadToByte(written))

\* ======================================================== the Rice coder
MaxRices == 3

RiceOrders == {0, 1, 4}

RiceValues == {-64, -33, -32, -1, 0, 3, 63}

InitRice ==
    /\ build \in Builds
    /\ w = BitWriterNew
    /\ written = <<>>
    /\ nops = 0
    /\ last = [op |-> "new"]
    /\ fr = Idle /\ sf = Idle /\ blk = Idle /\ ms = Idle /\ ftf = Idle /\ frm = Idle

\* rice(order, value, &mut w); `written` is the code the format asks for
RiceEncode ==
    /\ nops < MaxRices
    /\ ~w.panicked
    /\ \E order \in RiceOrders, value \in RiceValues :
          /\ w' = Rice(build, order, value, w)
          /\ written' = written \o Zeros(Zigzag(value) \div Pow2(order)) \o <<1>>
                                \o LowBits(FromNat(Zigzag(value)), order)
          /\ last' = [op |-> "rice", order |-> order, value |-> value,
                      cursor |-> w.scratchptr]
    /\ nops' = nops + 1
    /\ UNCHANGED <<build, fr, sf, blk, ms, ftf, frm>>

NextRice == RiceEncode

SpecRice == InitRice /\ [][NextRice]_vars

\* C2: rice(k, v, w) appends exactly q = zigzag(v) >> k zero bits, a one bit
\* and the low k bits of zigzag(v), for every q.
C2_RiceCodeIsUnaryThenBinary ==
    /\ ~w.panicked
    /\ AllBits(w) = written

\* ================================================= the residual iterator
MaxLen == 5

\* i16 samples: the extremes and values around zero
SampleVals == {-32768, -1, 0, 32767}

RECURSIVE SeqsUpTo(_, _)
SeqsUpTo(S, n) ==
    IF n = 0 THEN {<<>>}
    ELSE LET shorter == SeqsUpTo(S, n - 1)
         IN  shorter \cup {Append(t, x) : t \in {u \in shorter : Len(u) = n - 1}, x \in S}

Orders == 0..4

InitFR ==
    /\ build \in Builds
    /\ fr = [state |-> "none"]
    /\ w = Idle /\ written = Idle /\ nops = 0 /\ last = Idle
    /\ sf = Idle /\ blk = Idle /\ ms = Idle /\ ftf = Idle /\ frm = Idle

\* FixedResidual::<i16, ORDER>::new(subblock)
FRNew ==
    /\ fr.state = "none"
    /\ \E order \in Orders, subblock \in SeqsUpTo(SampleVals, MaxLen) :
          fr' = FixedResidualNew(subblock, order)
    /\ UNCHANGED <<build, w, written, nops, last, sf, blk, ms, ftf, frm>>

\* iterator.next()
FRNext ==
    /\ fr.state = "iterating"
    /\ fr' = FixedResidualNext(fr)
    /\ UNCHANGED <<build, w, written, nops, last, sf, blk, ms, ftf, frm>>

NextFR == FRNew \/ FRNext

SpecFR == InitFR /\ [][NextFR]_vars

\* the k-th finite difference of s ending at position i (1-based)
RECURSIVE FiniteDiff(_, _, _)
FiniteDiff(s, k, i) ==
    IF k = 0 THEN s[i] ELSE FiniteDiff(s, k - 1, i) - FiniteDiff(s, k - 1, i - 1)

Abs(x) == IF x < 0 THEN -x ELSE x

\* C3: for every order k in 0..4 and every sequence of n >= k samples the
\* iterator yields n - k values, the value for position i being the k-th
\* finite difference ending at i; every stored and yielded value stays far
\* inside the i64 range; order 0 yields the input unchanged.
C3_ResidualIsFiniteDifference ==
    fr.state \in {"iterating", "done"} =>
        /\ \A m \in 1..Len(fr.out) : fr.out[m] = FiniteDiff(fr.src, fr.order, fr.order + m)
        /\ \A j \in 1..Len(fr.residuals) : Abs(fr.residuals[j]) < Pow2(30)
        /\ \A m \in 1..Len(fr.out) : Abs(fr.out[m]) < Pow2(30)
        /\ Len(fr.out) + Len(fr.iter) = Len(fr.src) - fr.order
        /\ (fr.state = "done" => Len(fr.out) = Len(fr.src) - fr.order)
        /\ (fr.state = "done" /\ fr.order = 0 => fr.out = fr.src)

\* an order-3 iterator that has yielded both residuals of a five-sample input
C3_Witness ==
    /\ fr.state = "done"
    /\ fr.order = 3
    /\ Len(fr.out) = 2
    /\ fr.out[1] # fr.out[2]

\* ================================================ mid/side reconstruction
\* i16 values: the extremes, their neighbours, odd and even values of both signs
StereoVals == {-32768, -32767, -12345, -2, -1, 0, 1, 2, 3, 12344, 32766, 32767}

InitMS ==
    /\ build \in Builds
    /\ \E l \in StereoVals, r \in StereoVals : ms = [state |-> "input", left |-> l, right |-> r]
    /\ w = Idle /\ written = Idle /\ nops = 0 /\ last = Idle
    /\ fr = Idle /\ sf = Idle /\ blk = Idle /\ ftf = Idle /\ frm = Idle

\* calculate_mid(left, right) and calculate_side(left, right)
MSConvert ==
    /\ ms.state = "input"
    /\ LET mid == CalculateMid(ms.left, ms.right)
       IN  IF mid.some
           THEN ms' = [state |-> "converted", left |-> ms.left, right |-> ms.right,
                       mid |-> mid.v, side |-> CalculateSide(ms.left, ms.right)]
           ELSE ms' = [state |-> "panicked", left |-> ms.left, right |-> ms.right]
    /\ UNCHANGED <<build, w, written, nops, last, fr, sf, blk, ftf, frm>>

\* the decoder's side, as tests::mid_side_conversion writes it
MSReconstruct ==
    /\ ms.state = "converted"
    /\ LET right_reconstructed == ms.mid - AsI16(AsrOne(ms.side))
           left_reconstructed == AsI16(right_reconstructed + ms.side)
       IN  ms' = [ms EXCEPT !.state = "reconstructed"]
                     @@ [right2 |-> right_reconstructed, left2 |-> left_reconstructed]
    /\ UNCHANGED <<build, w, written, nops, last, fr, sf, blk, ftf, frm>>

NextMS == MSConvert \/ MSReconstruct

SpecMS == InitMS /\ [][NextMS]_vars

\* C8: for 16-bit l and r the narrowing of mid = (l + r) >> 1 never fails, and
\* r' = mid - (side >> 1), l' = r' + side with side = l - r give back l and r.
C8_MidSideReconstructs ==
    /\ ms.state # "panicked"
    /\ ms.state \in {"converted", "reconstructed"} =>
          /\ 2 * ms.mid <= ms.left + ms.right
          /\ ms.left + ms.right <= 2 * ms.mid + 1
          /\ ms.side = ms.left - ms.right
    /\ ms.state = "reconstructed" =>
          /\ ms.right2 = ms.right
          /\ ms.left2 = ms.left

\* a reconstructed pair whose sum is odd and negative
C8_Witness ==
    /\ ms.state = "reconstructed"
    /\ ms.left + ms.right < 0
    /\ (ms.left + ms.right) % 2 = 1

\* ======================================================= ftf8_encode alone
MaxFtfBits == 40

Bit64(n) == [i \in Bits64 |-> IF i = 64 - n THEN 1 ELSE 0]

\* powers of two, their predecessors, and mixed patterns below them
Ftf8Values ==
    {Bit64(n) : n \in 0..MaxFtfBits} \cup {LowOnes(n) : n \in 0..MaxFtfBits}
        \cup {And64(Alternating64, LowOnes(n)) : n \in 0..MaxFtfBits}
        \cup {Bit64(63), LowOnes(64)}

InitFtf ==
    /\ build \in Builds
    /\ \E val \in Ftf8Values : ftf = [state |-> "input", val |-> val]
    /\ w = Idle /\ written = Idle /\ nops = 0 /\ last = Idle
    /\ fr = Idle /\ sf = Idle /\ blk = Idle /\ ms = Idle /\ frm = Idle

\* ftf8_encode(val)
FtfEncode ==
    /\ ftf.state = "input"
    /\ LET r == Ftf8Encode(ftf.val)
       IN  ftf' = [state |-> IF r.panicked THEN "panicked" ELSE "encoded",
                   val |-> ftf.val, bytes |-> r.bytes]
    /\ UNCHANGED <<build, w, written, nops, last, fr, sf, blk, ms, frm>>

NextFtf == FtfEncode

SpecFtf == InitFtf /\ [][NextFtf]_vars

\* the number of leading one bits of a byte
RECURSIVE LeadingOnes(_)
LeadingOnes(bits) == IF Len(bits) = 0 \/ bits[1] = 0 THEN 0 ELSE 1 + LeadingOnes(Tail(bits))

RECURSIVE ContinuationPayload(_)
ContinuationPayload(bytes) ==
    IF Len(bytes) = 0 THEN <<>>
    ELSE SubSeq(ByteBits(bytes[1]), 3, 8) \o ContinuationPayload(Tail(bytes))

\* a UTF-8 style decoder: the payload bits of the leading byte, then six bits
\* of every continuation byte, as a u64
Ftf8Decode(bytes) ==
    LET lead == ByteBits(bytes[1])
        n == LeadingOnes(lead)
        payload == IF n = 0 THEN SubSeq(lead, 2, 8)
                   ELSE SubSeq(lead, n + 2, 8) \o ContinuationPayload(Tail(bytes))
    IN  Zeros(64 - Len(payload)) \o payload

Ftf8WellFormed(bytes) ==
    LET n == LeadingOnes(ByteBits(bytes[1]))
    IN  /\ n # 1
        /\ Len(bytes) = IF n = 0 THEN 1 ELSE n
        /\ n < 8
        /\ \A i \in 2..Len(bytes) : bytes[i] \div 64 = 2

\* the smallest n in 2..7 with val < 2^(5n+1)
Ftf8Length(val) == CHOOSE n \in 2..7 : ~Ge64(val, 5 * n + 1) /\ (n = 2 \/ Ge64(val, 5 * n - 4))

\* C9: every value below 2^36 is encoded as a well-formed UTF-8 style
\* sequence that decodes back to it: one byte equal to the value below 128,
\* otherwise the smallest n in 2..7 bytes with v < 2^(5n+1); 0, 127, 128,
\* 0x7FF, 0x800 and 2^36-1 take 1, 1, 2, 2, 3 and 7 bytes; every value from
\* 2^36 on is rejected.
C9_Ftf8RoundTrips ==
    ftf.state # "input" =>
        /\ Ge64(ftf.val, 36) <=> ftf.state = "panicked"
        /\ ftf.state = "encoded" =>
              /\ Ftf8WellFormed(ftf.bytes)
              /\ Ftf8Decode(ftf.bytes) = ftf.val
              /\ ~Ge64(ftf.val, 7) => ftf.bytes = <<LowNat(ftf.val, 8)>>
              /\ Ge64(ftf.val, 7) => Len(ftf.bytes) = Ftf8Length(ftf.val)
              /\ ftf.val = FromNat(0) => Len(ftf.bytes) = 1
              /\ ftf.val = FromNat(127) => Len(ftf.bytes) = 1
              /\ ftf.val = FromNat(128) => Len(ftf.bytes) = 2
              /\ ftf.val = FromNat(2047) => Len(ftf.bytes) = 2
              /\ ftf.val = FromNat(2048) => Len(ftf.bytes) = 3
              /\ ftf.val = LowOnes(36) => Len(ftf.bytes) = 7

\* 0x800 encoded as e0 a0 80, the first value that needs three bytes
C9_Witness ==
    /\ ftf.state = "encoded"
    /\ ftf.val = FromNat(2048)
    /\ ftf.bytes = <<224, 160, 128>>

\* ==================================================== subframe selection
MaxSubLen == 4

\* i16 samples: the extremes, zero and a mid-sized value
SubblockVals == {-32768, 0, 1000, 32767}

InitSF ==
    /\ build \in Builds
    /\ \E value \in SeqsUpTo(SubblockVals, MaxSubLen) : sf = [state |-> "input", value |-> value]
    /\ w = Idle /\ written = Idle /\ nops = 0 /\ last = Idle
    /\ fr = Idle /\ blk = Idle /\ ms = Idle /\ ftf = Idle /\ frm = Idle

\* Subframe::<i16>::from_subblock(&Subblock { data: value })
SFFromSubblock ==
    /\ sf.state = "input"
    /\ LET chosen == FromSubblock(sf.value, BITSIZE_I16)
       IN  sf' = [state |-> IF chosen.kind = "Panic" THEN "panicked" ELSE "chosen",
                  value |-> sf.value, chosen |-> chosen]
    /\ UNCHANGED <<build, w, written, nops, last, fr, blk, ms, ftf, frm>>

NextSF == SFFromSubblock

SpecSF == InitSF /\ [][NextSF]_vars

Range(seq) == {seq[i] : i \in 1..Len(seq)}

\* C4: a non-empty subblock whose samples are all the same is encoded as
\* Constant with that sample, whatever the other candidates would cost, and a
\* subblock with two different samples is never encoded as Constant.
C4_ConstantIffAllEqual ==
    /\ sf.state = "chosen" =>
          /\ sf.chosen.kind = "Constant" <=> Cardinality(Range(sf.value)) = 1
          /\ sf.chosen.kind = "Constant" => Range(sf.value) = {sf.chosen.value}
    /\ sf.state = "panicked" => Cardinality(Range(sf.value)) # 1

\* four equal samples encoded as Constant
C4_Witness ==
    /\ sf.state = "chosen"
    /\ Len(sf.value) = 4
    /\ Cardinality(Range(sf.value)) = 1
    /\ sf.chosen = [kind |-> "Constant", value |-> sf.value[1]]

\* the number of bytes put_into and finish() produce from a fresh writer
Serialized(sub) == AlignAndFlush(build, SubframePutInto(build, sub, BITSIZE_I16, BitWriterNew))

SerializedLen(sub) == Len(Serialized(sub).buf)

\* the five candidates of a subblock that is not constant
Candidates(value) ==
    {[kind |-> "Verbatim", value |-> value]} \cup {NewFixed(value, k) : k \in 1..4}

\* C5: when the samples are not all equal, the chosen subframe serializes to
\* no more bytes than each of Verbatim and Fixed order 1, 2, 3 and 4.
C5_ChosenIsShortestSerialized ==
    sf.state = "chosen" /\ sf.chosen.kind # "Constant" =>
        \A cand \in Candidates(sf.value) : SerializedLen(sf.chosen) <= SerializedLen(cand)

FixedOrder(sub) == Len(sub.predictor)

\* len() of the four Fixed candidates
FixedLens(value) == [k \in 1..4 |-> SubframeLen(NewFixed(value, k), BITSIZE_I16)]

MinLen(lens) == CHOOSE m \in Range(lens) : \A k \in 1..4 : m <= lens[k]

VerbatimLen(value) == SubframeLen([kind |-> "Verbatim", value |-> value], BITSIZE_I16)

\* C6 as claimed: Verbatim loses a tie to a Fixed candidate of equal length,
\* and among Fixed candidates of equal minimal length the lowest order wins.
C6_VerbatimLosesTies ==
    sf.state = "chosen" /\ sf.chosen.kind # "Constant" =>
        LET lens == FixedLens(sf.value)
            least == MinLen(lens)
        IN  /\ VerbatimLen(sf.value) = least => sf.chosen.kind = "Fixed"
            /\ sf.chosen.kind = "Fixed" =>
                  /\ lens[FixedOrder(sf.chosen)] = least
                  /\ \A k \in 1..(FixedOrder(sf.chosen) - 1) : lens[k] > least

\* C6 amended: ties keep the earliest candidate evaluated. Verbatim is
\* returned whenever no Fixed candidate has a smaller len(), also on a tie;
\* otherwise the Fixed candidate of minimal len() with the lowest order is.
C6_TiesKeepEarliest ==
    sf.state = "chosen" /\ sf.chosen.kind # "Constant" =>
        LET lens == FixedLens(sf.value)
            least == MinLen(lens)
        IN  /\ VerbatimLen(sf.value) <= least =>
                  sf.chosen = [kind |-> "Verbatim", value |-> sf.value]
            /\ VerbatimLen(sf.value) > least =>
                  /\ sf.chosen.kind = "Fixed"
                  /\ sf.chosen = NewFixed(sf.value, FixedOrder(sf.chosen))
                  /\ lens[FixedOrder(sf.chosen)] = least
                  /\ \A k \in 1..(FixedOrder(sf.chosen) - 1) : lens[k] > least

\* Verbatim and the cheapest Fixed candidate have the same len(), and
\* Verbatim is returned
C6_Witness ==
    /\ sf.state = "chosen"
    /\ sf.chosen.kind = "Verbatim"
    /\ VerbatimLen(sf.value) = MinLen(FixedLens(sf.value))

\* ======================================================= stereo blocks
BlockLen == 16

\* one channel of a block: silence, a constant, a ramp, a square wave, an
\* irregular signal and its mirror, the two around a ramp, and the extremes
Irregular(i) == ((i * 7919 + i * i * 31) % 4001) - 2000

ChannelPatterns ==
    {[i \in 1..BlockLen |-> 0],
     [i \in 1..BlockLen |-> 1000],
     [i \in 1..BlockLen |-> 100 * i],
     [i \in 1..BlockLen |-> IF i % 2 = 0 THEN 1000 ELSE -1000],
     [i \in 1..BlockLen |-> Irregular(i)],
     [i \in 1..BlockLen |-> -Irregular(i)],
     [i \in 1..BlockLen |-> 100 * i + Irregular(i)],
     [i \in 1..BlockLen |-> 100 * i - Irregular(i)],
     [i \in 1..BlockLen |-> IF i % 2 = 0 THEN I16_MAX ELSE I16_MIN],
     [i \in 1..BlockLen |-> IF i % 3 = 0 THEN 7 ELSE Irregular(i) \div 8]}

InitBlk ==
    /\ build \in Builds
    /\ \E left \in ChannelPatterns, right \in ChannelPatterns :
          blk = [state |-> "input", left |-> left, right |-> right]
    /\ w = Idle /\ written = Idle /\ nops = 0 /\ last = Idle
    /\ fr = Idle /\ sf = Idle /\ ms = Idle /\ ftf = Idle /\ frm = Idle

\* Block::from_input(vec![left, right])
BlkFromInput ==
    /\ blk.state = "input"
    /\ LET mid_side == ToMidSide(blk.left, blk.right)
       IN  blk' = IF mid_side.ok
                  THEN [state |-> "block", left |-> blk.left, right |-> blk.right,
                        mid |-> mid_side.mid, side |-> mid_side.side]
                  ELSE [state |-> "panicked", left |-> blk.left, right |-> blk.right]
    /\ UNCHANGED <<build, w, written, nops, last, fr, sf, ms, ftf, frm>>

\* block.encode(&stream_info, first_sample) for a 16-bit stream
BlkEncode ==
    /\ blk.state = "block"
    /\ LET layout == StereoLayout(blk.left, blk.right, blk.mid, blk.side)
       IN  blk' = IF ~BlockEncodeAccepts(Len(blk.left), BITSIZE_I16)
                  THEN [blk EXCEPT !.state = "none"]
                  ELSE IF layout.kind = "Panic"
                  THEN [blk EXCEPT !.state = "panicked"]
                  ELSE [blk EXCEPT !.state = "encoded"] @@ [layout |-> layout]
    /\ UNCHANGED <<build, w, written, nops, last, fr, sf, ms, ftf, frm>>

NextBlk == BlkFromInput \/ BlkEncode

SpecBlk == InitBlk /\ [][NextBlk]_vars

\* the summed len() of the four layouts of a block
LayoutCosts(b) ==
    LET l == SubframeLen(FromSubblock(b.left, BITSIZE_I16), BITSIZE_I16)
        r == SubframeLen(FromSubblock(b.right, BITSIZE_I16), BITSIZE_I16)
        m == SubframeLen(FromSubblock(b.mid, BITSIZE_I16), BITSIZE_I16)
        s == SubframeLen(EncodeSideChannel(b.side, BITSIZE_I32), BITSIZE_I32)
    IN  [Independent |-> l + r, MidSide |-> m + s, LeftSide |-> l + s, SideRight |-> s + r]

LayoutKinds == {"Independent", "MidSide", "LeftSide", "SideRight"}

\* C7: a two-channel block is encoded with the layout of least summed
\* subframe length, ties going to Independent, then MidSide, then LeftSide,
\* then SideRight; a block whose mid+side is strictly cheapest carries
\* channel assignment 10.
C7_StereoLayoutIsCheapest ==
    blk.state = "encoded" =>
        LET cost == LayoutCosts(blk)
            least == CHOOSE c \in {cost[k] : k \in LayoutKinds} :
                         \A k \in LayoutKinds : c <= cost[k]
            preferred == IF cost.Independent = least THEN "Independent"
                         ELSE IF cost.MidSide = least THEN "MidSide"
                         ELSE IF cost.LeftSide = least THEN "LeftSide"
                         ELSE "SideRight"
        IN  /\ blk.layout.kind = preferred
            /\ (\A k \in LayoutKinds \ {"MidSide"} : cost.MidSide < cost[k])
                  => ChannelAssignment(blk.layout) = 10

\* =============================================================== frames
MaxFrames == 2

\* block sizes: one with an explicit 8-bit field, a table entry, and one with
\* an explicit 16-bit field
FrameBlockSizes == {16, 192, 300}

\* frame numbers with a one-, two- and three-byte code
FrameNumbers == {0, 128, 2048}

ChannelA == <<0, 0, 0, 0>>
ChannelB == <<10, 20, 31, 40, 52, 61>>
ChannelC == <<-32768, 32767, -1, 0, 5, -7>>

\* layouts built the way Block::encode and the encoding test build them
FrameLayouts ==
    LET ms_bc == ToMidSide(ChannelB, ChannelC)
        side == EncodeSideChannel(ms_bc.side, BITSIZE_I32)
    IN  {Independent(<<FromSubblock(ChannelA, BITSIZE_I16)>>),
         Independent(<<FromSubblock(ChannelB, BITSIZE_I16),
                       FromSubblock(ChannelC, BITSIZE_I16)>>),
         [kind |-> "MidSide", mid |-> FromSubblock(ms_bc.mid, BITSIZE_I16), side |-> side],
         [kind |-> "LeftSide", left |-> FromSubblock(ChannelB, BITSIZE_I16), side |-> side],
         [kind |-> "SideRight", side |-> side, right |-> FromSubblock(ChannelC, BITSIZE_I16)]}

\* what a caller may have put into the writer before the frame
PrefixPuts == {<<1, 1>>, <<3, 5>>, <<8, 165>>, <<12, 2730>>}

InitFrm ==
    /\ build \in Builds
    /\ w = BitWriterNew
    /\ \E block_size \in FrameBlockSizes, number \in FrameNumbers, layout \in FrameLayouts :
          LET stream_info == [min_block_size |-> block_size, bits_per_sample |-> BITSIZE_I16]
              frame == FrameNew(block_size, stream_info, number * block_size, layout)
          IN  frm = [state |-> "new", frame |-> frame, start |-> 0, prefixed |-> FALSE]
    /\ nops = 0
    /\ written = Idle /\ last = Idle
    /\ fr = Idle /\ sf = Idle /\ blk = Idle /\ ms = Idle /\ ftf = Idle

\* w.put(ct, value) by the caller, before the first frame
FrmPrefix ==
    /\ frm.state = "new"
    /\ ~frm.prefixed
    /\ \E field \in PrefixPuts : w' = Put(build, w, field[1], FromNat(field[2]))
    /\ frm' = [frm EXCEPT !.prefixed = TRUE]
    /\ UNCHANGED <<build, written, nops, last, fr, sf, blk, ms, ftf>>

\* frame.put_into(&mut w); start records how many bits w held at the call
FrmPutInto ==
    /\ nops < MaxFrames
    /\ ~w.panicked
    /\ frm.frame.some
    /\ w' = FramePutInto(build, frm.frame, w)
    /\ frm' = [frm EXCEPT !.state = "emitted", !.start = Len(AllBits(w))]
    /\ nops' = nops + 1
    /\ UNCHANGED <<build, written, last, fr, sf, blk, ms, ftf>>

NextFrm == FrmPrefix \/ FrmPutInto

SpecFrm == InitFrm /\ [][NextFrm]_vars

\* the bytes of a frame header before its CRC-8: four fixed bytes, the coded
\* frame number and the explicit block size
HeaderLen(header) ==
    LET code == BlockSizeBits(header.actual_block_size)
    IN  4 + (IF header.number < 128 THEN 1 ELSE Ftf8Length(FromNat(header.number)))
          + (IF code = 6 THEN 1 ELSE IF code = 7 THEN 2 ELSE 0)

\* the bits the last put_into call added to the writer
EmittedBits == SubSeq(AllBits(w), frm.start + 1, Len(AllBits(w)))

\* C10: whatever the writer held before put_into, the frame is a whole
\* number of bytes, the last header byte is the CRC-8 of the header bytes of
\* this frame before it, and the last two bytes are the CRC-16 of all the
\* bytes of this frame before them.
C10_FrameCrcsCoverExactlyTheFrame ==
    (frm.state = "emitted" /\ ~w.panicked) =>
        LET bytes == PackBytes(EmittedBits)
            n == Len(bytes)
            h == HeaderLen(frm.frame.header)
        IN  /\ Len(EmittedBits) % 8 = 0
            /\ n >= h + 3
            /\ bytes[h + 1] = FrameHeaderCrc8(SubSeq(bytes, 1, h))
            /\ 256 * bytes[n - 1] + bytes[n] = FrameCrc16(SubSeq(bytes, 1, n - 2))

\* the same for frames put into a writer that held whole bytes at the call
C10_AlignedFrameCrcs ==
    frm.start % 8 = 0 => C10_FrameCrcsCoverExactlyTheFrame

\* ======================================================== frame headers
\* stream sample rates: the three of the header table and one outside it
StreamSampleRates == {44100, 88200, 176400, 48000}

\* block sizes: every table entry, the smallest and the largest size, and
\* the sizes either side of the 8-bit / 16-bit boundary
HeaderBlockSizes ==
    {16, 17, 192, 255, 256, 257, 512, 576, 1024, 1152, 2048, 2304, 4096, 4608,
     8192, 16384, 32768, 65535}

InitHdr ==
    /\ build \in Builds
    /\ w = BitWriterNew
    /\ \E block_size \in HeaderBlockSizes, number \in FrameNumbers,
          sample_rate \in StreamSampleRates :
          frm = [state |-> "stream",
                 stream_info |-> [min_block_size |-> block_size,
                                  sample_rate |-> sample_rate,
                                  bits_per_sample |-> BITSIZE_I16],
                 block_size |-> block_size,
                 first_sample |-> number * block_size]
    /\ nops = 0
    /\ written = Idle /\ last = Idle
    /\ fr = Idle /\ sf = Idle /\ blk = Idle /\ ms = Idle /\ ftf = Idle

\* Frame::new(block_size, &stream_info, first_sample) and set_subframes with
\* two constant channels
HdrFrameNew ==
    /\ frm.state = "stream"
    /\ frm.block_size >= MIN_BLOCK_SIZE
    /\ LET layout == Independent(<<[kind |-> "Constant", value |-> 0],
                                   [kind |-> "Constant", value |-> -1]>>)
           frame == FrameNew(frm.block_size, frm.stream_info, frm.first_sample, layout)
       IN  frm' = [frm EXCEPT !.state = IF frame.some THEN "frame" ELSE "none"]
                  @@ [frame |-> frame]
    /\ UNCHANGED <<build, w, written, nops, last, fr, sf, blk, ms, ftf>>

\* frame.header.put_into(&frame.subframes, &mut w) on the new writer
HdrPutInto ==
    /\ frm.state = "frame"
    /\ w' = FrameHeaderPutInto(build, frm.frame.header, frm.frame.subframes, w)
    /\ frm' = [frm EXCEPT !.state = "emitted"]
    /\ UNCHANGED <<build, written, nops, last, fr, sf, blk, ms, ftf>>

NextHdr == HdrFrameNew \/ HdrPutInto

SpecHdr == InitHdr /\ [][NextHdr]_vars

\* the header as bytes, CRC-8 included
HeaderBytes == PackBytes(AllBits(w))

\* the bytes of the coded frame number
NumberLen(number) == IF number < 128 THEN 1 ELSE Ftf8Length(FromNat(number))

\* the sample-rate code the stream's rate calls for
RateCode(sample_rate) ==
    CASE sample_rate = 44100 -> 9
      [] sample_rate = 88200 -> 1
      [] sample_rate = 176400 -> 2
      [] OTHER -> 0

\* C11: the 4-bit sample-rate code of a frame header is the table code of
\* the stream's sample rate (44100 -> 1001, 88200 -> 0001, 176400 -> 0010),
\* 0000 for a rate outside the table, and no explicit sample-rate field
\* follows: after the frame number come only the explicit block size, if
\* any, and the CRC-8.
C11_SampleRateCodeFollowsStream ==
    (frm.state = "emitted" /\ ~w.panicked) =>
        LET code == BlockSizeBits(frm.block_size)
            explicit == IF code = 6 THEN 1 ELSE IF code = 7 THEN 2 ELSE 0
        IN  /\ HeaderBytes[3] % 16 = RateCode(frm.stream_info.sample_rate)
            /\ Len(HeaderBytes) = 4 + NumberLen(frm.frame.header.number) + explicit + 1

\* the block sizes with a code of their own
BlockSizeTable ==
    {<<192, 1>>, <<576, 2>>, <<1152, 3>>, <<2304, 4>>, <<4608, 5>>, <<256, 8>>,
     <<512, 9>>, <<1024, 10>>, <<2048, 11>>, <<4096, 12>>, <<8192, 13>>,
     <<16384, 14>>, <<32768, 15>>}

\* C12: the 4-bit block-size code of a frame of b samples is the table code
\* for a table size, with no explicit field; otherwise 0110 with b-1 as one
\* byte after the frame number when b <= 256, and 0111 with b-1 as two bytes
\* when b > 256.
C12_BlockSizeCode ==
    (frm.state = "emitted" /\ ~w.panicked) =>
        LET b == frm.block_size
            code == HeaderBytes[3] \div 16
            at == 4 + NumberLen(frm.frame.header.number)
        IN  IF \E entry \in BlockSizeTable : entry[1] = b
            THEN /\ <<b, code>> \in BlockSizeTable
                 /\ Len(HeaderBytes) = at + 1
            ELSE IF b <= 256
            THEN /\ code = 6
                 /\ Len(HeaderBytes) = at + 2
                 /\ HeaderBytes[at + 1] = b - 1
            ELSE /\ code = 7
                 /\ Len(HeaderBytes) = at + 3
                 /\ 256 * HeaderBytes[at + 1] + HeaderBytes[at + 2] = b - 1

\* a header with an explicit 16-bit block size, and one with an 8-bit one,
\* were written
C12_Witness ==
    /\ frm.state = "emitted"
    /\ ~w.panicked
    /\ frm.block_size \in {255, 65535}
    /\ HeaderBytes[3] \div 16 = (IF frm.block_size = 255 THEN 6 ELSE 7)
    /\ frm.frame.header.number = 128

\* the subframes of a layout in the order the format gives them
FormatOrder(layout) ==
    CASE layout.kind = "Independent" ->
            [i \in 1..Len(layout.channels) |-> <<layout.channels[i], BITSIZE_I16>>]
      [] layout.kind = "LeftSide" -> <<<<layout.left, BITSIZE_I16>>, <<layout.side, BITSIZE_I32>>>>
      [] layout.kind = "SideRight" -> <<<<layout.side, BITSIZE_I32>>, <<layout.right, BITSIZE_I16>>>>
      [] layout.kind = "MidSide" -> <<<<layout.mid, BITSIZE_I16>>, <<layout.side, BITSIZE_I32>>>>

\* the bits of each subframe written on its own, one after the other
RECURSIVE SubframeBits(_)
SubframeBits(subs) ==
    IF Len(subs) = 0 THEN <<>>
    ELSE AllBits(SubframePutInto(build, subs[1][1], subs[1][2], BitWriterNew))
         \o SubframeBits(Tail(subs))

\* C13: the bits put_into adds to the writer are the frame header with its
\* CRC-8, the subframes in the order of the layout, zero bits up to a whole
\* number of bytes, and the 16-bit CRC, with nothing in between.
C13_FrameIsHeaderSubframesPaddingCrc ==
    (frm.state = "emitted" /\ ~w.panicked) =>
        LET header == AllBits(FrameHeaderPutInto(build, frm.frame.header,
                                                 frm.frame.subframes, BitWriterNew))
            padded == PadToByte(header \o SubframeBits(FormatOrder(frm.frame.subframes)))
        IN  /\ Len(EmittedBits) = Len(padded) + 16
            /\ SubSeq(EmittedBits, 1, Len(padded)) = padded

\* the same for frames put into a writer that held whole bytes at the call
C13_AlignedFrameLayout ==
    frm.start % 8 = 0 => C13_FrameIsHeaderSubframesPaddingCrc

\* ================================================= Rice parameter search
MaxResiduals == 3

\* residuals: zero, small ones of either sign, and the largest an order-2
\* predictor gives for 16-bit samples
ResidualVals == {0, 1, -1, 5, -40, 1000, 131070, -131070}

InitOpt ==
    /\ build \in Builds
    /\ \E residual \in SeqsUpTo(ResidualVals, MaxResiduals) :
          /\ Len(residual) > 0
          /\ sf = [state |-> "residual", residual |-> residual]
    /\ w = Idle /\ written = Idle /\ nops = 0 /\ last = Idle
    /\ fr = Idle /\ blk = Idle /\ ms = Idle /\ ftf = Idle /\ frm = Idle

\* let rice_param = find_optimum_rice_param(&residual)
OptFind ==
    /\ sf.state = "residual"
    /\ sf' = [state |-> "found", residual |-> sf.residual,
              rice_param |-> FindOptimumRiceParam(sf.residual)]
    /\ UNCHANGED <<build, w, written, nops, last, fr, blk, ms, ftf, frm>>

NextOpt == OptFind

SpecOpt == InitOpt /\ [][NextOpt]_vars

\* C14: for a non-empty residual sequence the parameter returned is in
\* 0..14, no legal parameter gives a shorter encoding (so parameter 0 does
\* not), and every smaller parameter gives a longer one.
C14_OptimumIsSmallestArgmin ==
    sf.state = "found" =>
        LET cost == [k \in 0..MAX_RICE_PARAM |-> GetRiceEncodingLength(sf.residual, k)]
        IN  /\ sf.rice_param \in 0..MAX_RICE_PARAM
            /\ \A k \in 0..MAX_RICE_PARAM : cost[sf.rice_param] <= cost[k]
            /\ cost[sf.rice_param] <= cost[0]
            /\ \A k \in 0..MAX_RICE_PARAM : k < sf.rice_param => cost[k] > cost[sf.rice_param]

\* the search ran on an all-zero sequence and chose 0, where parameter 1 is
\* dearer
C14_Witness ==
    /\ sf.state = "found"
    /\ sf.residual = <<0, 0, 0>>
    /\ sf.rice_param = 0
    /\ GetRiceEncodingLength(sf.residual, 1) >= GetRiceEncodingLength(sf.residual, 0)

\* ====================================================== residual ranges
\* C15: for every order k in 1..4 and every sequence of 16-bit samples, the
\* extremes included, every residual x yielded satisfies
\* -2^k * 32768 < x < 2^k * 32768.
C15_ResidualWithinTwoToTheOrder ==
    (fr.state \in {"iterating", "done"} /\ fr.order \in 1..4) =>
        \A m \in 1..Len(fr.out) :
            /\ -(Pow2(fr.order) * 32768) < fr.out[m]
            /\ fr.out[m] < Pow2(fr.order) * 32768

\* an order-4 iterator yielded the largest residual five extreme samples give
C15_Witness ==
    /\ fr.state = "done"
    /\ fr.order = 4
    /\ fr.src = <<32767, -32768, 32767, -32768, 32767>>
    /\ fr.out = <<524280>>

C17_AlignPadsToByte ==
    [][(nops' # nops /\ last'.op = "align_and_flush") =>
          LET n == Len(written)
          IN  /\ Len(AllBits(w)) = n
              /\ AllBits(w') = AllBits(w) \o Zeros((8 - (n % 8)) % 8)
              /\ w'.scratchptr = 0
              /\ Len(w'.buf) = (n + 7) \div 8]_vars

\* align_and_flush() ran on a writer whose cursor was not on a byte boundary
C17_Witness ==
    /\ last.op = "align_and_flush"
    /\ last.cursor % 8 = 1
    /\ w.scratchptr = 0
    /\ Len(w.buf) = 2

\* ------------------------------------------- flush between the same puts
\* Two writers receive the same puts; flush() is called on w only, and
\* written is the writer that is never flushed.
InitFl ==
    /\ build \in Builds
    /\ w = BitWriterNew
    /\ written = BitWriterNew
    /\ nops = 0
    /\ last = [op |-> "new"]
    /\ fr = Idle /\ sf = Idle /\ blk = Idle /\ ms = Idle /\ ftf = Idle /\ frm = Idle

\* the same put(ct, value) on both writers
FlPut ==
    /\ nops < MaxOps
    /\ ~w.panicked /\ ~written.panicked
    /\ \E ct \in PutWidths, value \in PutValues :
          /\ w' = Put(build, w, ct, value)
          /\ written' = Put(build, written, ct, value)
          /\ last' = [op |-> "put", ct |-> ct, cursor |-> w.scratchptr]
    /\ nops' = nops + 1
    /\ UNCHANGED <<build, fr, sf, blk, ms, ftf, frm>>

\* w.flush(); last keeps the writer as it was at the call
FlFlush ==
    /\ nops < MaxOps
    /\ ~w.panicked
    /\ w' = Flush(w)
    /\ last' = [op |-> "flush", before |-> w]
    /\ nops' = nops + 1
    /\ UNCHANGED <<build, written, fr, sf, blk, ms, ftf, frm>>

NextFl == FlPut \/ FlFlush

SpecFl == InitFl /\ [][NextFl]_vars

\* C18: flush() appends exactly the floor(cursor / 8) complete bytes of the
\* scratch to the buffer and changes no earlier byte, keeps the remaining
\* cursor mod 8 bits as the leading bits of the scratch with every other
\* scratch bit zero; and the bytes finish() returns are those of the same
\* puts without any flush() call.
C18_FlushMovesWholeBytesOnly ==
    /\ last.op = "flush" =>
          LET cursor == last.before.scratchptr
              whole == cursor \div 8
          IN  /\ w.buf = last.before.buf
                         \o SubSeq(ToBeBytes(last.before.scratch), 1, whole)
              /\ w.scratchptr = cursor % 8
              /\ \A i \in Bits64 :
                    w.scratch[i] = IF i <= cursor % 8
                                   THEN last.before.scratch[8 * whole + i]
                                   ELSE 0
    /\ (~w.panicked /\ ~written.panicked) => Finish(build, w) = Finish(build, written)

\* the flush step alone
C18_FlushStep ==
    last.op = "flush" => C18_FlushMovesWholeBytesOnly

\* ------------------------------------------------------ stream header
BLOCKTYPE_STREAMINFO == 0

BLOCKTYPE_PADDING == 1

\* b"fLaC"
MagicBytes == <<102, 76, 97, 67>>

\* MetadataBlockStreamInfo::len
StreamInfoLen == 34

\* the offset FrameWriter::finish seeks to
MD5_OFFSET == 26

\* put_metadata_header
PutMetadataHeader(bld, block_type, last_header, len, bw) ==
    PutFields(bld, bw, <<<<1, IF last_header THEN 1 ELSE 0>>,
                         <<7, block_type>>,
                         <<24, len>>>>)

\* SamplesInStream::inner: the count as a u64; a count of 2^36 or more panics
SamplesOutOfRange(samples_in_stream) == \E i \in 1..28 : samples_in_stream[i] = 1

\* the channel count and the sample width stored as they are
StreamInfoFieldsUnbiased(stream_info) ==
    <<<<16, stream_info.min_block_size>>,
      <<16, stream_info.max_block_size>>,
      <<24, stream_info.min_frame_size>>,
      <<24, stream_info.max_frame_size>>,
      <<20, stream_info.sample_rate>>,
      <<3, stream_info.channels>>,
      <<5, stream_info.bits_per_sample>>>>

\* the fields of the stream-info block before the sample count
StreamInfoFields(stream_info) ==
    <<<<16, stream_info.min_block_size>>,
      <<16, stream_info.max_block_size>>,
      <<24, stream_info.min_frame_size>>,
      <<24, stream_info.max_frame_size>>,
      <<20, stream_info.sample_rate>>,
      <<3, stream_info.channels - 1>>,
      <<5, stream_info.bits_per_sample - 1>>>>

\* MetadataBlockStreamInfo::put_into
StreamInfoPutInto(bld, stream_info, last_header, bw) ==
    LET head == PutMetadataHeader(bld, BLOCKTYPE_STREAMINFO, last_header,
                                  StreamInfoLen, bw)
        fields == PutFields(bld, head, StreamInfoFields(stream_info))
        counted == IF SamplesOutOfRange(stream_info.samples_in_stream)
                   THEN [fields EXCEPT !.panicked = TRUE]
                   ELSE Put(bld, fields, 36, stream_info.samples_in_stream)
        md5_high == Put(bld, counted, 64, Zero64)
    IN  Put(bld, md5_high, 64, Zero64)

\* the loop of MetadataBlockPadding::put_into, entered with ct >= BATCH_SIZE
RECURSIVE PaddingLoop(_, _, _, _)
PaddingLoop(bld, bw, ct, written_bits) ==
    IF bw.panicked \/ ~(written_bits < ct - 64)
    THEN Put(bld, bw, ct - written_bits, Zero64)
    ELSE PaddingLoop(bld, Put(bld, bw, 64, Zero64), ct, written_bits + 64)

\* MetadataBlockPadding::put_into. ct - BATCH_SIZE is a usize subtraction:
\* below 64 it panics in a debug build and wraps in a release build, where
\* the loop then grows the buffer until the allocation fails; in both builds
\* the call does not return.
PaddingPutInto(bld, count, last_header, bw) ==
    LET head == PutMetadataHeader(bld, BLOCKTYPE_PADDING, last_header, count, bw)
    IN  IF count < 64 THEN [head EXCEPT !.panicked = TRUE]
        ELSE PaddingLoop(bld, head, count, 0)

\* MetadataBlock::put_into: a seek table is todo!()
MetadataBlockPutInto(bld, header, last_header, bw) ==
    IF header.kind = "SeekTable" THEN [bw EXCEPT !.panicked = TRUE]
    ELSE PaddingPutInto(bld, header.count, last_header, bw)

\* the while-let loop of write_headers over the peekable iterator
RECURSIVE PutHeaders(_, _, _)
PutHeaders(bld, headers, bw) ==
    IF bw.panicked \/ Len(headers) = 0 THEN bw
    ELSE PutHeaders(bld, Tail(headers),
                    MetadataBlockPutInto(bld, headers[1], Len(headers) = 1, bw))

\* the writer of HeaderWriter::write_headers before finish()
HeaderBitWriter(bld, stream_info, headers) ==
    LET magic == Put(bld, BitWriterNew, 32, FromNat(BitsToNat(BytesToBits(MagicBytes))))
        info == StreamInfoPutInto(bld, stream_info, Len(headers) = 0, magic)
    IN  PutHeaders(bld, headers, info)

\* write_all returns Ok
WriteAllOk(bytes, accepted) == accepted >= Len(bytes)

\* std::io::Write::write_all on the sink: the sink takes the first accepted
\* bytes at its position; it fails when it takes fewer than all of them
WriteAll(sink, bytes, accepted) ==
    LET taken == SubSeq(bytes, 1, Min(accepted, Len(bytes)))
        end == sink.pos + Len(taken)
        size == Max(Len(sink.data), end)
    IN  [received |-> sink.received \o taken,
         data |-> [i \in 1..size |->
                      IF i > sink.pos /\ i <= end THEN taken[i - sink.pos]
                      ELSE sink.data[i]],
         pos |-> end,
         err |-> ~WriteAllOk(bytes, accepted)]

\* the error of write_all is dropped and a FrameWriter is returned
WriteHeadersUnchecked(bld, hw, headers, accepted) ==
    LET writer == HeaderBitWriter(bld, hw.stream_info, headers)
        bytes == Finish(bld, writer)
    IN  IF writer.panicked
        THEN [hw EXCEPT !.state = "panicked"]
        ELSE [hw EXCEPT !.state = "FrameWriter", !.w = WriteAll(hw.w, bytes, accepted)]

\* HeaderWriter::write_headers: the typestate after the call and the sink
WriteHeaders(bld, hw, headers, accepted) ==
    LET writer == HeaderBitWriter(bld, hw.stream_info, headers)
        bytes == Finish(bld, writer)
    IN  IF writer.panicked
        THEN [hw EXCEPT !.state = "panicked"]
        ELSE IF WriteAllOk(bytes, accepted)
             THEN [hw EXCEPT !.state = "FrameWriter", !.w = WriteAll(hw.w, bytes, accepted)]
             ELSE [hw EXCEPT !.state = "Err", !.w = WriteAll(hw.w, bytes, accepted)]

\* FrameWriter::write_frame
WriteFrame(bld, fw, frame, accepted) ==
    LET writer == FramePutInto(bld, frame, BitWriterNew)
        bytes == Finish(bld, writer)
    IN  IF writer.panicked
        THEN [fw EXCEPT !.state = "panicked"]
        ELSE [fw EXCEPT !.w = WriteAll(fw.w, bytes, accepted)]

\* FrameWriter::finish: seek to the MD5 field; the write is commented out
FrameWriterFinish(fw) ==
    [fw EXCEPT !.w = [fw.w EXCEPT !.pos = MD5_OFFSET, !.err = FALSE]]

\* HeaderWriter::new over an empty sink
HeaderWriterNew(stream_info) ==
    [state |-> "HeaderWriter",
     stream_info |-> stream_info,
     w |-> [received |-> <<>>, data |-> <<>>, pos |-> 0, err |-> FALSE]]

\* ================================================= the stream header alone
\* Stream parameters as their constructors accept them: BlockSize::new,
\* FrameSize::new (which accepts every u32), SampleRate::new,
\* ChannelCount::new, BitsPerSample::new and SamplesInStream::new.
\* <<min_block_size, max_block_size>>
StreamBlockSizes == {<<16, 65535>>, <<4096, 4096>>}

\* <<min_frame_size, max_frame_size>>
StreamFrameSizes == {<<0, 0>>, <<14, 16777215>>, <<14, 16777221>>}

StreamRates == {44100, 655350}

StreamChannels == {1, 2, 8}

StreamSampleWidths == {4, 16, 32}

StreamSampleCounts == {Zero64, Shl(FromNat(1), 35), LowOnes(36)}

\* what the sink takes of one write_all before it fails; 4096 is more than
\* any write of the model
SinkAccepts == {0, 26, 4096}

InitHW ==
    /\ build \in Builds
    /\ \E block_sizes \in StreamBlockSizes,
          frame_sizes \in StreamFrameSizes,
          sample_rate \in StreamRates,
          channels \in StreamChannels,
          bits_per_sample \in StreamSampleWidths,
          samples_in_stream \in StreamSampleCounts :
          frm = HeaderWriterNew([min_block_size |-> block_sizes[1],
                                 max_block_size |-> block_sizes[2],
                                 min_frame_size |-> frame_sizes[1],
                                 max_frame_size |-> frame_sizes[2],
                                 sample_rate |-> sample_rate,
                                 channels |-> channels,
                                 bits_per_sample |-> bits_per_sample,
                                 samples_in_stream |-> samples_in_stream])
    /\ nops = 0
    /\ last = [op |-> "new"]
    /\ w = Idle /\ written = Idle
    /\ fr = Idle /\ sf = Idle /\ blk = Idle /\ ms = Idle /\ ftf = Idle

\* header_writer.write_headers(None)
HWWriteHeaders ==
    /\ frm.state = "HeaderWriter"
    /\ \E accepted \in SinkAccepts :
          /\ frm' = WriteHeaders(build, frm, <<>>, accepted)
          /\ last' = [op |-> "write_headers", accepted |-> accepted]
    /\ nops' = nops + 1
    /\ UNCHANGED <<build, w, written, fr, sf, blk, ms, ftf>>

\* frame_writer.finish()
HWFinish ==
    /\ frm.state = "FrameWriter"
    /\ last.op = "write_headers"
    /\ frm' = FrameWriterFinish(frm)
    /\ last' = [op |-> "finish"]
    /\ nops' = nops + 1
    /\ UNCHANGED <<build, w, written, fr, sf, blk, ms, ftf>>

NextHW == HWWriteHeaders \/ HWFinish

SpecHW == InitHW /\ [][NextHW]_vars

\* the low n bits of the number v, most significant first
FieldBits(v, n) == [i \in 1..n |-> (v \div Pow2(n - i)) % 2]

\* the stream-info payload before the MD5 field, field by field
StreamInfoBits(stream_info) ==
    FieldBits(stream_info.min_block_size, 16)
    \o FieldBits(stream_info.max_block_size, 16)
    \o FieldBits(stream_info.min_frame_size, 24)
    \o FieldBits(stream_info.max_frame_size, 24)
    \o FieldBits(stream_info.sample_rate, 20)
    \o FieldBits(stream_info.channels - 1, 3)
    \o FieldBits(stream_info.bits_per_sample - 1, 5)
    \o LowBits(stream_info.samples_in_stream, 36)

\* C19: write_headers without further metadata blocks hands the sink exactly
\* 42 bytes: the magic fLaC, a metadata header with the last-block bit set,
\* block type 0 and length 34, then the stream-info fields of 16, 16, 24, 24,
\* 20, 3 (channels - 1), 5 (bits per sample - 1) and 36 bits in that order,
\* and a zero MD5 field in the bytes at offsets 26..41, the offset that
\* FrameWriter::finish seeks to.
C19_StreamHeaderIs42Bytes ==
    frm.state = "FrameWriter" =>
        LET bytes == frm.w.received
        IN  /\ Len(bytes) = 42
            /\ frm.w.data = bytes
            /\ SubSeq(bytes, 1, 4) = MagicBytes
            /\ SubSeq(bytes, 5, 8) = <<128, 0, 0, StreamInfoLen>>
            /\ BytesToBits(SubSeq(bytes, 9, MD5_OFFSET)) = StreamInfoBits(frm.stream_info)
            /\ \A i \in MD5_OFFSET + 1 .. 42 : bytes[i] = 0
            /\ Len(bytes) - MD5_OFFSET = 16
            /\ frm.w.pos = IF last.op = "finish" THEN MD5_OFFSET ELSE 42

\* a stream of eight 32-bit channels with the largest sample count is written
\* and finish() has moved the sink to the MD5 field
C19_Witness ==
    /\ frm.state = "FrameWriter"
    /\ last.op = "finish"
    /\ frm.stream_info.channels = 8
    /\ frm.stream_info.bits_per_sample = 32
    /\ frm.stream_info.samples_in_stream = LowOnes(36)
    /\ frm.w.received[22] = 255
    /\ Len(frm.w.received) = 42

\* ============================================ header writer, frame writer
\* The typestate of writer.rs driven by a caller: HeaderWriter::new, then
\* write_headers, which consumes the HeaderWriter and gives a FrameWriter
\* only on Ok, then write_frame and finish in any order. The sink may fail
\* any write_all after taking part of the bytes. written is the history of
\* what the sink took, one entry per write_all.
MaxCalls == 3

\* the metadata blocks handed to write_headers
NoBlocks == <<>>

PaddingBlock(count) == [kind |-> "Padding", count |-> count]

SeekTableBlock == [kind |-> "SeekTable", count |-> 0]

WrHeaders ==
    {NoBlocks,
     <<PaddingBlock(64)>>,
     <<PaddingBlock(8)>>,
     <<SeekTableBlock>>,
     <<PaddingBlock(128), PaddingBlock(64)>>}

WrStreamInfo(channels) ==
    [min_block_size |-> MIN_BLOCK_SIZE,
     max_block_size |-> MIN_BLOCK_SIZE,
     min_frame_size |-> 0,
     max_frame_size |-> 0,
     sample_rate |-> FRAME_SAMPLE_RATE,
     channels |-> channels,
     bits_per_sample |-> BITSIZE_I16,
     samples_in_stream |-> Zero64]

\* frames of one constant channel and of two predicted channels
WrFrames(stream_info) ==
    IF stream_info.channels = 1
    THEN {FrameNew(MIN_BLOCK_SIZE, stream_info, first_sample,
                   Independent(<<FromSubblock(ChannelA, BITSIZE_I16)>>)) :
             first_sample \in {0, MIN_BLOCK_SIZE}}
    ELSE {FrameNew(MIN_BLOCK_SIZE, stream_info, first_sample,
                   Independent(<<FromSubblock(ChannelB, BITSIZE_I16),
                                 FromSubblock(ChannelC, BITSIZE_I16)>>)) :
             first_sample \in {0, MIN_BLOCK_SIZE}}

InitWr ==
    /\ build \in Builds
    /\ \E channels \in {1, 2} : frm = HeaderWriterNew(WrStreamInfo(channels))
    /\ written = <<>>
    /\ nops = 0
    /\ last = [op |-> "new", ok |-> TRUE]
    /\ w = Idle
    /\ fr = Idle /\ sf = Idle /\ blk = Idle /\ ms = Idle /\ ftf = Idle

\* the bytes the sink took during the step
Taken(before, after) ==
    SubSeq(after.w.received, Len(before.w.received) + 1, Len(after.w.received))

\* header_writer.write_headers(headers)
WrWriteHeaders ==
    /\ nops < MaxCalls
    /\ frm.state = "HeaderWriter"
    /\ \E headers \in WrHeaders, accepted \in SinkAccepts :
          /\ frm' = WriteHeaders(build, frm, headers, accepted)
          /\ last' = [op |-> "write_headers", ok |-> frm'.state = "FrameWriter"]
          /\ written' = IF frm'.state = "panicked" THEN written
                        ELSE Append(written, [op |-> "write_headers",
                                              blocks |-> Len(headers),
                                              taken |-> Taken(frm, frm')])
    /\ nops' = nops + 1
    /\ UNCHANGED <<build, w, fr, sf, blk, ms, ftf>>

\* frame_writer.write_frame(frame)
WrWriteFrame ==
    /\ nops < MaxCalls
    /\ frm.state = "FrameWriter"
    /\ \E frame \in WrFrames(frm.stream_info), accepted \in SinkAccepts :
          /\ frm' = WriteFrame(build, frm, frame, accepted)
          /\ last' = [op |-> "write_frame", ok |-> ~frm'.w.err]
          /\ written' = IF frm'.state = "panicked" THEN written
                        ELSE Append(written, [op |-> "write_frame",
                                              blocks |-> 0,
                                              taken |-> Taken(frm, frm')])
    /\ nops' = nops + 1
    /\ UNCHANGED <<build, w, fr, sf, blk, ms, ftf>>

\* frame_writer.finish()
WrFinish ==
    /\ nops < MaxCalls
    /\ frm.state = "FrameWriter"
    /\ frm' = FrameWriterFinish(frm)
    /\ last' = [op |-> "finish", ok |-> TRUE]
    /\ nops' = nops + 1
    /\ UNCHANGED <<build, w, written, fr, sf, blk, ms, ftf>>

NextWr == WrWriteHeaders \/ WrWriteFrame \/ WrFinish

SpecWr == InitWr /\ [][NextWr]_vars

\* the magic and the stream-info block as the format lays them out
StreamHeader(stream_info, last_header) ==
    MagicBytes
    \o <<IF last_header THEN 128 ELSE 0, 0, 0, StreamInfoLen>>
    \o PackBytes(StreamInfoBits(stream_info))
    \o [i \in 1..16 |-> 0]

\* everything the sink took, write by write
RECURSIVE TakenSoFar(_)
TakenSoFar(history) ==
    IF Len(history) = 0 THEN <<>>
    ELSE history[1].taken \o TakenSoFar(Tail(history))

IsPrefix(short, long) ==
    Len(short) <= Len(long) /\ SubSeq(long, 1, Len(short)) = short

\* C20: in every sequence of calls the sink receives the magic and the
\* stream-info block first and from one write only, every frame byte comes
\* after a write_headers that returned Ok, and a write_headers that the sink
\* fails returns the error, leaves no FrameWriter and so no write_frame.
C20_HeaderOnceBeforeFrames ==
    LET received == frm.w.received
    IN  /\ received = TakenSoFar(written)
        /\ \A i \in 1..Len(written) : (written[i].op = "write_headers") <=> (i = 1)
        /\ frm.state = "HeaderWriter" => received = <<>>
        /\ frm.state = "FrameWriter" =>
              /\ Len(written) >= 1
              /\ IsPrefix(StreamHeader(frm.stream_info, written[1].blocks = 0),
                          written[1].taken)
        /\ frm.state # "FrameWriter" =>
              /\ Len(written) <= 1
              /\ ~ENABLED WrWriteFrame
        /\ frm.state = "Err" =>
              /\ last = [op |-> "write_headers", ok |-> FALSE]
              /\ frm.w.err
              /\ IsPrefix(received, StreamHeader(frm.stream_info, written[1].blocks = 0))
              /\ Len(received) < Len(StreamHeader(frm.stream_info, TRUE))
        /\ frm.state = "panicked" /\ last.op = "write_headers" => received = <<>>

\* two frames have followed the stream header into the sink
C20_Witness ==
    /\ frm.state = "FrameWriter"
    /\ Len(written) = 3
    /\ written[1].op = "write_headers" /\ Len(written[1].taken) = 42
    /\ written[2].op = "write_frame" /\ Len(written[2].taken) > 0
    /\ written[3].op = "write_frame" /\ Len(written[3].taken) > 0
    /\ Len(frm.w.received) > 42

\* the sink failed the header write and no FrameWriter exists
C20_RejectedHeader ==
    frm.state = "Err" /\ Len(frm.w.received) = 26

\* ================================================ stream parameter types
\* Option<T>: Some(inner) or None
Some(inner) == [some |-> TRUE, inner |-> inner]

None == [some |-> FALSE, inner |-> 0]

U8_MAX == 255

U16_MAX == 65535

\* a block size of exactly 16 is refused
BlockSizeNewStrict(val) == IF val > MIN_BLOCK_SIZE THEN Some(val) ELSE None

\* BlockSize::new
BlockSizeNew(val) == IF val >= MIN_BLOCK_SIZE THEN Some(val) ELSE None

\* val & 0xff000000 for a u32
HighByte(val) == (val \div 16777216) % 256

\* FrameSize::new
FrameSizeNew(val) == IF val > 0 \/ HighByte(val) = 0 THEN Some(val) ELSE None

MAX_SAMPLE_RATE == 655350

\* SampleRate::new
SampleRateNew(val) == IF val > 0 /\ val <= MAX_SAMPLE_RATE THEN Some(val) ELSE None

\* BitsPerSample::new
BitsPerSampleNew(val) == IF val \in 4..(33 - 1) THEN Some(val) ELSE None

\* the 24-bit field MetadataBlockStreamInfo::put_into writes for a frame size
FrameSizeField(bld, frame_size) ==
    BitsToNat(AllBits(Put(bld, BitWriterNew, 24, FromNat(frame_size))))

\* Arguments of the constructors: every u8, the u16 and u32 values around
\* the limits of the types and of the fields.
CtorValues ==
    0..U8_MAX \cup {U16_MAX - 1, U16_MAX, 44100, 655349, 655350, 655351,
                    1048575, 16777215, 16777216, 16777217, 16777221,
                    33554432, 2147483647}

InitCtor ==
    /\ build \in Builds
    /\ \E val \in CtorValues : frm = [state |-> "argument", val |-> val, result |-> None]
    /\ nops = 0
    /\ last = [op |-> "none", field |-> 0]
    /\ w = Idle /\ written = Idle
    /\ fr = Idle /\ sf = Idle /\ blk = Idle /\ ms = Idle /\ ftf = Idle

\* BlockSize::new(val) for a u16
CtorBlockSize ==
    /\ frm.state = "argument"
    /\ frm.val <= U16_MAX
    /\ frm' = [frm EXCEPT !.state = "returned", !.result = BlockSizeNew(frm.val)]
    /\ last' = [op |-> "BlockSize::new", field |-> 0]
    /\ nops' = nops + 1
    /\ UNCHANGED <<build, w, written, fr, sf, blk, ms, ftf>>

\* SampleRate::new(val) for a u32
CtorSampleRate ==
    /\ frm.state = "argument"
    /\ frm' = [frm EXCEPT !.state = "returned", !.result = SampleRateNew(frm.val)]
    /\ last' = [op |-> "SampleRate::new", field |-> 0]
    /\ nops' = nops + 1
    /\ UNCHANGED <<build, w, written, fr, sf, blk, ms, ftf>>

\* BitsPerSample::new(val) for a u8
CtorBitsPerSample ==
    /\ frm.state = "argument"
    /\ frm.val <= U8_MAX
    /\ frm' = [frm EXCEPT !.state = "returned", !.result = BitsPerSampleNew(frm.val)]
    /\ last' = [op |-> "BitsPerSample::new", field |-> 0]
    /\ nops' = nops + 1
    /\ UNCHANGED <<build, w, written, fr, sf, blk, ms, ftf>>

\* FrameSize::new(val) for a u32, and the field put_into writes for the
\* value it returns
CtorFrameSize ==
    /\ frm.state = "argument"
    /\ frm' = [frm EXCEPT !.state = "returned", !.result = FrameSizeNew(frm.val)]
    /\ last' = [op |-> "FrameSize::new",
                field |-> IF frm'.result.some
                          THEN FrameSizeField(build, frm'.result.inner) ELSE 0]
    /\ nops' = nops + 1
    /\ UNCHANGED <<build, w, written, fr, sf, blk, ms, ftf>>

NextCtor == CtorBlockSize \/ CtorSampleRate \/ CtorBitsPerSample \/ CtorFrameSize

SpecCtor == InitCtor /\ [][NextCtor]_vars

\* C21: BlockSize::new(v) is Some exactly when v >= 16, SampleRate::new(v)
\* exactly when 0 < v <= 655350, BitsPerSample::new(v) exactly when
\* 4 <= v <= 32; the value inside a Some is v, and every call returns.
C21_ConstructorsAcceptTheirRanges ==
    /\ frm.state = "returned" =>
          /\ frm.result.some => frm.result.inner = frm.val
          /\ last.op = "BlockSize::new" => (frm.result.some <=> frm.val >= 16)
          /\ last.op = "SampleRate::new" =>
                (frm.result.some <=> (0 < frm.val /\ frm.val <= 655350))
          /\ last.op = "BitsPerSample::new" =>
                (frm.result.some <=> (4 <= frm.val /\ frm.val <= 32))
    /\ frm.state = "argument" /\ frm.val <= U8_MAX =>
          ENABLED CtorBlockSize /\ ENABLED CtorSampleRate /\ ENABLED CtorBitsPerSample

\* the smallest block size is accepted
C21_Witness ==
    /\ frm.state = "returned"
    /\ last.op = "BlockSize::new"
    /\ frm.val = 16
    /\ frm.result = Some(16)

\* C27: FrameSize::new(v) is Some only for v < 2^24, so the 24-bit frame
\* size fields of the stream-info block hold the value as it is.
C27_FrameSizeFitsItsField ==
    (frm.state = "returned" /\ last.op = "FrameSize::new" /\ frm.result.some) =>
        /\ frm.val < 16777216
        /\ last.field = frm.result.inner

\* ================================================== fixed subframes alone
\* Subframe::<i16>::new_fixed_from_widened: the slice value[..order] panics
\* on a short input, a predictor sample outside i16 gives None, and only
\* then is the order matched
NewFixedFromWidened(value, order) ==
    IF Len(value) < order THEN Panic
    ELSE IF \E i \in 1..order : ~TryFromWidened(value[i]).some THEN [kind |-> "None"]
    ELSE NewFixed(value, order)

\* samples of the widened type i32: the extremes of i16 and one outside i16
WidenedVals == {-32768, 32767, 40000}

FixedOrders == 0..6

InitFix ==
    /\ build \in Builds
    /\ \E value \in SeqsUpTo(WidenedVals, MaxLen), order \in FixedOrders :
          sf = [state |-> "input", value |-> value, order |-> order, result |-> Panic]
    /\ nops = 0
    /\ last = [op |-> "none"]
    /\ w = Idle /\ written = Idle
    /\ fr = Idle /\ blk = Idle /\ ms = Idle /\ ftf = Idle /\ frm = Idle

\* Subframe::<i16>::new_fixed(value, order)
FixNewFixed ==
    /\ sf.state = "input"
    /\ \A i \in 1..Len(sf.value) : I16_MIN <= sf.value[i] /\ sf.value[i] <= I16_MAX
    /\ sf' = [sf EXCEPT !.state = "called", !.result = NewFixed(sf.value, sf.order)]
    /\ last' = [op |-> "new_fixed"]
    /\ nops' = nops + 1
    /\ UNCHANGED <<build, w, written, fr, blk, ms, ftf, frm>>

\* Subframe::<i16>::new_fixed_from_widened(value, order)
FixNewFixedFromWidened ==
    /\ sf.state = "input"
    /\ sf' = [sf EXCEPT !.state = "called",
                        !.result = NewFixedFromWidened(sf.value, sf.order)]
    /\ last' = [op |-> "new_fixed_from_widened"]
    /\ nops' = nops + 1
    /\ UNCHANGED <<build, w, written, fr, blk, ms, ftf, frm>>

NextFix == FixNewFixed \/ FixNewFixedFromWidened

SpecFix == InitFix /\ [][NextFix]_vars

\* C22: new_fixed and new_fixed_from_widened called with an order outside
\* 1..4 return a failure value to the caller: the call neither panics nor
\* builds a subframe.
C22_BadOrderIsAFailureValue ==
    (sf.state = "called" /\ sf.order \notin 1..4) =>
        /\ sf.result.kind # "Panic"
        /\ sf.result.kind # "Fixed"

\* ============================================================== put_slice
\* the while loop of put_slice: put(SCRATCH_SIZE / 8, ..) of the next eight
\* bytes as one u64
RECURSIVE PutSliceChunks(_, _, _)
PutSliceChunks(bld, bw, slice) ==
    IF bw.panicked \/ ~(Len(slice) > SCRATCH_SIZE \div 8)
    THEN [bw |-> bw, slice |-> slice]
    ELSE PutSliceChunks(bld,
                        Put(bld, bw, SCRATCH_SIZE \div 8,
                            FromBeBytes(SubSeq(slice, 1, SCRATCH_SIZE \div 8))),
                        SubSeq(slice, SCRATCH_SIZE \div 8 + 1, Len(slice)))

\* for byte in slice { self.put(8, *byte) }
RECURSIVE PutSliceBytes(_, _, _)
PutSliceBytes(bld, bw, slice) ==
    IF bw.panicked \/ Len(slice) = 0 THEN bw
    ELSE PutSliceBytes(bld, Put(bld, bw, 8, FromNat(slice[1])), Tail(slice))

\* the padding of put_slice: put(8 - scratchptr, 0). Past the first byte of
\* the scratch the subtraction underflows: a debug build panics, a release
\* build wraps to a count near 2^64 and put grows the buffer until the
\* allocation fails; in both builds the call does not return.
PutSliceAlign(bld, bw) ==
    IF bw.scratchptr % 8 > 0
    THEN IF bw.scratchptr > 8 THEN [bw EXCEPT !.panicked = TRUE]
         ELSE Put(bld, bw, 8 - bw.scratchptr, FromNat(0))
    ELSE bw

\* BitWriter::put_slice
PutSlice(bld, bw, slice) ==
    LET aligned == PutSliceAlign(bld, bw)
        chunked == PutSliceChunks(bld, aligned, slice)
    IN  PutSliceBytes(bld, chunked.bw, chunked.slice)

\* widths put before the call: they leave the cursor on a byte boundary,
\* inside the first byte of the scratch, or inside a later byte
SlicePrefixWidths == {3, 8, 12, 16}

\* slices shorter than, as long as and longer than the scratch
Slices ==
    {<<>>, <<165>>, <<1, 2, 3>>,
     <<1, 2, 3, 4, 5, 6, 7, 8>>,
     <<1, 2, 3, 4, 5, 6, 7, 8, 9>>,
     <<255, 254, 253, 252, 251, 250, 249, 248, 247, 246, 245, 244, 243, 242, 241, 240, 239>>}

InitPS ==
    /\ build \in Builds
    /\ w = BitWriterNew
    /\ nops = 0
    /\ last = [op |-> "new", before |-> BitWriterNew, slice |-> <<>>]
    /\ written = Idle
    /\ fr = Idle /\ sf = Idle /\ blk = Idle /\ ms = Idle /\ ftf = Idle /\ frm = Idle

\* w.put(ct, ones) by the caller
PSPut ==
    /\ nops < MaxOps
    /\ ~w.panicked
    /\ \E ct \in SlicePrefixWidths :
          /\ w' = Put(build, w, ct, LowOnes(ct))
          /\ last' = [op |-> "put", before |-> w, slice |-> <<>>]
    /\ nops' = nops + 1
    /\ UNCHANGED <<build, written, fr, sf, blk, ms, ftf, frm>>

\* w.put_slice(slice)
PSPutSlice ==
    /\ nops < MaxOps
    /\ ~w.panicked
    /\ \E slice \in Slices :
          /\ w' = PutSlice(build, w, slice)
          /\ last' = [op |-> "put_slice", before |-> w, slice |-> slice]
    /\ nops' = nops + 1
    /\ UNCHANGED <<build, written, fr, sf, blk, ms, ftf, frm>>

NextPS == PSPut \/ PSPutSlice

SpecPS == InitPS /\ [][NextPS]_vars

\* C23: put_slice(s), at any cursor and for a slice of any length, returns
\* and has appended zero bits up to the next byte boundary, then the bytes
\* of s as they are and in their order.
C23_PutSliceAppendsTheSlice ==
    last.op = "put_slice" =>
        /\ ~w.panicked
        /\ AllBits(w) = PadToByte(AllBits(last.before)) \o BytesToBits(last.slice)

\* slices of up to eight bytes at a cursor within the first byte of the scratch
C23_ShortSlices ==
    (/\ last.op = "put_slice"
     /\ Len(last.slice) <= 8
     /\ last.before.scratchptr <= 8) =>
        /\ ~w.panicked
        /\ AllBits(w) = PadToByte(AllBits(last.before)) \o BytesToBits(last.slice)

\* ================================================ len() against put_into
\* the subframes the encoder builds for a subblock: the one it returns and,
\* when the samples are not all equal, the five it compares
Built(state) ==
    IF state.chosen.kind = "Constant" THEN {state.chosen}
    ELSE Candidates(state.value)

\* C24: for every subframe the encoder builds (Constant, Verbatim, Fixed of
\* order 1..4 with its Rice parameter), len() is the number of bytes that
\* put_into into a fresh writer and finish() give.
C24_LenIsSerializedLen ==
    sf.state = "chosen" =>
        \A sub \in Built(sf) : SubframeLen(sub, BITSIZE_I16) = SerializedLen(sub)

\* len() of the subframes without a residual
C24_LenOfConstantAndVerbatim ==
    sf.state = "chosen" =>
        \A sub \in Built(sf) :
            sub.kind # "Fixed" => SubframeLen(sub, BITSIZE_I16) = SerializedLen(sub)

\* len() of a Fixed subframe is short by one or two bytes
C24_LenOfFixedIsShort ==
    sf.state = "chosen" =>
        \A sub \in Built(sf) :
            (sub.kind = "Fixed" /\ ~Serialized(sub).panicked) =>
                SerializedLen(sub) - SubframeLen(sub, BITSIZE_I16) \in {1, 2}

\* ========================================================== the cursor
\* C25: after new and any sequence of put, flush and align_and_flush the
\* cursor is below the scratch width 64, and every put found it so: the
\* debug assertion at the start of put does not fail.
C25_CursorBelowScratchWidth ==
    /\ w.scratchptr < 64
    /\ last.op = "put" => last.cursor < 64

\* a put has filled the scratch to its last bit and the cursor is back at 0
C25_Witness ==
    /\ last.op = "put"
    /\ last.cursor > 0
    /\ last.cursor + last.ct = 64
    /\ ~w.panicked
    /\ w.scratchptr = 0
    /\ Len(w.buf) = 8

\* ====================================================== the padding block
\* MetadataBlockPadding::new(count) for counts around BATCH_SIZE and its
\* multiples
PaddingCounts == 0..200

InitPad ==
    /\ build \in Builds
    /\ \E count \in PaddingCounts, last_header \in BOOLEAN :
          frm = [state |-> "block", count |-> count, last_header |-> last_header]
    /\ w = BitWriterNew
    /\ nops = 0
    /\ last = [op |-> "new"]
    /\ written = Idle
    /\ fr = Idle /\ sf = Idle /\ blk = Idle /\ ms = Idle /\ ftf = Idle

\* padding.put_into(last_header, &mut writer)
PadPutInto ==
    /\ frm.state = "block"
    /\ w' = PaddingPutInto(build, frm.count, frm.last_header, w)
    /\ frm' = [frm EXCEPT !.state = IF w'.panicked THEN "aborted" ELSE "written"]
    /\ last' = [op |-> "put_into"]
    /\ nops' = nops + 1
    /\ UNCHANGED <<build, written, fr, sf, blk, ms, ftf>>

NextPad == PadPutInto

SpecPad == InitPad /\ [][NextPad]_vars

\* the metadata header of a padding block of the given length
PaddingHeader(last_header, count) ==
    <<(IF last_header THEN 128 ELSE 0) + 1, count \div 65536, (count \div 256) % 256, count % 256>>

\* C26: put_into of a padding block of count N returns, for N below 64 too,
\* and has written a metadata header with the length N and then exactly N
\* zero bytes.
C26_PaddingIsCountZeroBytes ==
    frm.state # "block" =>
        /\ frm.state = "written"
        /\ Finish(build, w) = PaddingHeader(frm.last_header, frm.count) \o Zeros(frm.count)

\* what a call that returns has written: the header, then count zero bits
C26_PaddingIsCountZeroBits ==
    frm.state = "written" =>
        /\ frm.count >= 64
        /\ AllBits(w) = BytesToBits(PaddingHeader(frm.last_header, frm.count))
                        \o Zeros(frm.count)

\* ================================================ the Rice parameter field
\* the 4-bit Rice parameter field put_residual writes, after the 2-bit
\* coding method and the 4-bit partition order
RiceParamField(bld, rice_param) ==
    BitsToNat(SubSeq(AllBits(PutResidual(bld, BitWriterNew, <<>>, rice_param)), 7, 10))

BlockFromInput(channels) ==
    IF Len(channels) = 0 \/ Len(channels) > 8 THEN [kind |-> "Panic"]
    ELSE IF Len(channels) = 2
    THEN LET mid_side == ToMidSide(channels[1], channels[2])
         IN  IF mid_side.ok
             THEN [kind |-> "Stereo", left |-> channels[1], right |-> channels[2],
                   mid |-> mid_side.mid, side |-> mid_side.side]
             ELSE [kind |-> "Panic"]
    ELSE [kind |-> "Other", channels |-> channels]

\* Block::len
BlockLength(block) ==
    IF block.kind = "Stereo" THEN Len(block.left) ELSE Len(block.channels[1])

\* the layout of an Other block: encode_subframe on every channel
OtherLayout(channels) ==
    LET subframes == [i \in 1..Len(channels) |-> FromSubblock(channels[i], BITSIZE_I16)]
    IN  IF \E i \in 1..Len(channels) : subframes[i].kind = "Panic" THEN Panic
        ELSE Independent(subframes)

\* Block::encode: None before any subframe is built unless the length is a
\* u16 that BlockSize::new accepts and Frame::new accepts the stream; built
\* counts the calls of from_subblock and encode_side_channel
BlockEncode(block, stream_info, first_sample) ==
    LET len == BlockLength(block)
        layout == IF block.kind = "Stereo"
                  THEN StereoLayout(block.left, block.right, block.mid, block.side)
                  ELSE OtherLayout(block.channels)
    IN  IF ~BlockEncodeAccepts(len, stream_info.bits_per_sample)
        THEN [outcome |-> "None", built |-> 0]
        ELSE IF layout.kind = "Panic"
        THEN [outcome |-> "Panic", built |-> 0]
        ELSE [outcome |-> "Some",
              built |-> IF block.kind = "Stereo" THEN 4 ELSE Len(block.channels),
              frame |-> FrameNew(len, stream_info, first_sample, layout)]

\* per-channel lengths: a short final block, the limits of BlockSize and of
\* u16, and the lengths around them
ShortLengths == {0, 1, 15, 16, 17}

LongLengths == {65535, 65536}

Silence(n) == [i \in 1..n |-> 0]

Ramp(n) == [i \in 1..n |-> 100 * i + Irregular(i)]

Extremes(n) == [i \in 1..n |-> IF i % 2 = 0 THEN I16_MAX ELSE I16_MIN]

\* the channel vectors handed to from_input
EncInputs ==
    {<<Silence(n)>> : n \in ShortLengths \cup LongLengths}
    \cup {<<Ramp(n)>> : n \in ShortLengths}
    \cup {<<Ramp(n), Extremes(n)>> : n \in ShortLengths}
    \cup {<<Silence(n), Ramp(n)>> : n \in ShortLengths}
    \cup {<<Extremes(n), Silence(n), Ramp(n)>> : n \in ShortLengths}

EncMinBlockSizes == {16, 4096}

EncFirstSamples == {0, 16, 4095, 4096, 1000000}

InitEnc ==
    /\ build \in Builds
    /\ \E channels \in EncInputs, min_block_size \in EncMinBlockSizes,
          first_sample \in EncFirstSamples :
          blk = [state |-> "input",
                 channels |-> channels,
                 stream_info |-> [min_block_size |-> min_block_size,
                                  bits_per_sample |-> BITSIZE_I16],
                 first_sample |-> first_sample,
                 block |-> [kind |-> "none"],
                 result |-> [outcome |-> "none", built |-> 0]]
    /\ nops = 0
    /\ last = [op |-> "none"]
    /\ w = Idle /\ written = Idle
    /\ fr = Idle /\ sf = Idle /\ ms = Idle /\ ftf = Idle /\ frm = Idle

\* Block::from_input(channels)
EncFromInput ==
    /\ blk.state = "input"
    /\ blk' = [blk EXCEPT !.block = BlockFromInput(blk.channels),
                          !.state = IF BlockFromInput(blk.channels).kind = "Panic"
                                    THEN "panicked" ELSE "block"]
    /\ last' = [op |-> "from_input"]
    /\ nops' = nops + 1
    /\ UNCHANGED <<build, w, written, fr, sf, ms, ftf, frm>>

\* block.encode(&stream_info, first_sample)
EncEncode ==
    /\ blk.state = "block"
    /\ blk' = [blk EXCEPT !.result = BlockEncode(blk.block, blk.stream_info, blk.first_sample),
                          !.state = "encoded"]
    /\ last' = [op |-> "encode"]
    /\ nops' = nops + 1
    /\ UNCHANGED <<build, w, written, fr, sf, ms, ftf, frm>>

NextEnc == EncFromInput \/ EncEncode

SpecEnc == InitEnc /\ [][NextEnc]_vars

\* C29: Block::encode of a block shorter than 16 or longer than 65535
\* samples per channel returns None, without a panic and without building a
\* subframe; for a 16-bit stream and a length in 16..65535 it returns a frame
\* whose block size is the length and whose frame number is first_sample
\* divided by the min block size of the stream.
C29_EncodeChecksTheBlockLength ==
    blk.state = "encoded" =>
        LET len == Len(blk.channels[1])
        IN  /\ (len < 16 \/ len > 65535) =>
                  blk.result = [outcome |-> "None", built |-> 0]
            /\ (16 <= len /\ len <= 65535) =>
                  /\ blk.result.outcome = "Some"
                  /\ blk.result.frame.some
                  /\ blk.result.frame.header.actual_block_size = len
                  /\ blk.result.frame.header.number
                        = blk.first_sample \div blk.stream_info.min_block_size
                  /\ Len(LayoutSubframes(blk.result.frame.subframes)) = Len(blk.channels)

\* a stereo block of 17 samples at first_sample 4095 of a stream of blocks
\* of 16: frame 255
C29_Witness ==
    /\ blk.state = "encoded"
    /\ Len(blk.channels) = 2
    /\ Len(blk.channels[1]) = 17
    /\ blk.first_sample = 4095
    /\ blk.stream_info.min_block_size = 16
    /\ blk.result.outcome = "Some"
    /\ blk.result.frame.header.number = 255
    /\ blk.result.frame.header.actual_block_size = 17

\* a short final block and a block of 65536 samples are refused
C29_Refused ==
    /\ blk.state = "encoded"
    /\ Len(blk.channels[1]) \in {15, 65536}
    /\ blk.result.outcome = "None"

====
